---- MODULE Spec2Model ----
(***************************************************************************)
(* Model of the copilot-shim core: the serializing RequestQueue            *)
(* (api/queue.ts), the SessionManager (browser/sessions.ts), the           *)
(* chat-completion handler (api/handlers.ts) and the exchange on a page    *)
(* (browser/copilot.ts).                                                   *)
(*                                                                         *)
(* Node runs one callback at a time: every action below is one run of the  *)
(* event loop from a callback's entry (or from the resumption after an     *)
(* await on I/O or a timer) to its next suspension on I/O or a timer,      *)
(* the promise continuations (microtasks) it makes ready included.         *)
(***************************************************************************)
EXTENDS Integers, Sequences, FiniteSets, TLC

\* ------------------------------------------------------------------ bounds
\* Number of enqueue callers (queue items) considered.
NumReqs == 4
\* config.maxQueueSize, scaled down (100 in utils/config.ts) so that the
\* waiting list can fill up with NumReqs callers.
maxQueueSize == 2

\* Number of concurrent chat-completion requests considered when the whole
\* server is modelled (the requests are the items 1..NumClients).
NumClients == 3
\* SESSION_CONFIG.maxSessions, scaled down (10 in browser/sessions.ts) so that
\* NumClients requests reach the capacity.
maxSessions == 2
\* Last reading of the clock.
MaxTime == 2
\* When the session manager is driven on its own: the number of sessions
\* created, and the largest message count a session is touched up to.
NumSessions == 3
MaxMsgs == 1
\* When the browser manager is driven on its own: the number of concurrent
\* callers of initialize and close.
NumCalls == 3
\* The timeoutMs of performLogin (300000, against the 2000 ms between two
\* looks at the page), scaled down: the number of sleeps of
\* waitForLoginCompletion that fit into it.
loginTimeoutMs == 2
\* SESSION_CONFIG.timeoutMs: the clock of the model counts in units of the
\* idle threshold (30 minutes).
timeoutMs == 1
\* config.responseTimeout (120000 ms, against polls 400 to 800 ms apart),
\* scaled down: the clock of waitForResponseOnPage counts in units of the
\* shortest delay between two polls.
responseTimeout == 3
\* The longest delay between two polls, in those units.
MaxPollDelay == 2
\* The largest number of elements a selector matches.
MaxElems == 2

Reqs == 1..NumReqs
Clients == 1..NumClients
\* Session (and page) identifiers: uuidv4 values in the order they are minted.
\* 0 stands for "no identifier" (undefined).
Ids == 1..NumReqs
\* A session_id that is no uuid ("fake-session-id"): never minted.
FakeId == NumReqs + 1

\* The calls of initialize and close: call 0 is made by the main function
\* (ensureLoggedIn), the others by concurrent callers of the class.
Main == 0
Calls == 0..NumCalls
\* The browser contexts launchPersistentContext makes, in the order of the
\* launches.
CtxIds == 1..NumCalls

\* ------------------------------------------------------------------ state
VARIABLES
  queue,        \* RequestQueue.queue: the waiting list, a sequence of items
  processing,   \* RequestQueue.processing
  timeoutId,    \* item -> TRUE while the item's setTimeout is armed
  running,      \* items whose execute() was called and has not completed
  result,       \* item -> how the promise returned by enqueue was settled
  execCount,    \* item -> number of calls of item.execute()          (history)
  settleCount,  \* item -> number of resolve/reject/throw deliveries  (history)
  accepted,     \* items in the order enqueue pushed them             (history)
  started,      \* items in the order execute() was called            (history)
  delivered,    \* run items in the order their outcome was delivered (history)
  timerFired,   \* item -> number of runs of the item's timeout callback (history)
  now,          \* Date.now()
  sessions,     \* SessionManager.sessions: the Map, as its entries in insertion order
  page,         \* id -> state of the page opened for that session
  nextId,       \* the next identifier uuidv4 will return
  pc,           \* request -> where its handleChatCompletion call is suspended
  sid,          \* request -> id of the session object the handler holds (0: none)
  isFirstMessage, \* request -> the handler's isFirstMessage
  createdNow,   \* request -> `now` captured by createSession before page.goto
  target,       \* request -> id of the session whose page.close() it awaits
  todo,         \* request -> rest of expiredIds in cleanupExpiredSessions
  step,         \* request -> step of its exchange: 0 not begun, 1..6, 7 over
  http,         \* request -> status of the response sent (0: none yet)
  sweptIds,     \* call -> the expiredIds its cleanupExpiredSessions collected (history)
  body,         \* request -> req.body of the chat request
  messageToSend,  \* request -> the handler's messageToSend
  errorCode,    \* request -> error.code of the response sent ("": none)
  response,     \* request -> the body of the 200 response sent (NoResponse: none)
  context,      \* BrowserManager.context: the id of a browser context, 0 for null
  bpage,        \* BrowserManager.page: the id of the context of the page, 0 for null
  initialized,  \* BrowserManager.initialized
  initializing, \* BrowserManager.initializing: the call whose doInitialize promise it is, -1 for null
  currentHeadless, \* BrowserManager.currentHeadless
  ctx,          \* browser context id -> its state and its mode
  nextCtx,      \* the id of the next browser context chromium launches
  ipc,          \* call of initialize/close -> where it is suspended
  op,           \* call -> the method called, with its headless argument
  cx,           \* call -> the browser context it is closing or launching
  joinedTo,     \* call -> the call whose doInitialize promise it was returned
  mpc,          \* where main and ensureLoggedIn stand
  observed,     \* isOnCopilotPage has returned true
  attempts,     \* number of calls of performLogin                      (history)
  waited,       \* waitForLoginCompletion: sleeps since startTime
  serving,      \* app.listen was called
  exitCode,     \* process.exit(code) was called (-1: the process runs)
  xpc,          \* where one exchange (chatCompletionOnPage) stands
  xfirst,       \* its isFirstMessage argument
  xops,         \* the page operations of its step in progress or just ended
  xswallowed,   \* its steps 2 and 3 when they caught an error     (history)
  xclock,       \* waitForResponseOnPage: Date.now() - startTime
  xstarted,     \* ... the clock at the loop test of the last poll (-1: none)
  xsawAt,       \* ... the clock when a poll saw both indicators absent (-1: none)
  xobs,         \* ... what the last poll saw
  xseen,        \* extractLastResponseFromPage: the strategies consulted (history)
  xels,         \* ... the texts of the elements the last query matched
  xresult,      \* what the exchange returned or threw
  xgen          \* the page: the generation of the answer to the submitted message

qvars == <<queue, processing, timeoutId, running, result, execCount,
           settleCount, accepted, started, delivered, timerFired>>

\* No 200 response sent.
NoResponse == [session_id |-> 0, role |-> ""]

\* The request and the response of a chat-completion call.
hvars == <<body, messageToSend, errorCode, response>>

svars == <<now, sessions, page, nextId, pc, sid, isFirstMessage, createdNow,
           target, todo, step, http, sweptIds, hvars>>

\* The BrowserManager, and the startup of the process.
bvars == <<context, bpage, initialized, initializing, currentHeadless, ctx, nextCtx,
           ipc, op, cx, joinedTo>>

mvars == <<mpc, observed, attempts, waited, serving, exitCode>>

\* One exchange in detail.
xvars == <<xpc, xfirst, xops, xswallowed, xclock, xstarted, xsawAt, xobs, xseen, xels,
           xresult, xgen>>

vars == <<qvars, svars, bvars, mvars, xvars>>

Results == {"pending", "ok", "OpError", "QueueFull", "QueueTimeout", "QueueShutdown"}

\* ------------------------------------------------------------- sequences
Range(s) == {s[i] : i \in 1..Len(s)}

\* Array.prototype.indexOf: 0-based index of the first occurrence, or -1.
indexOf(s, x) ==
  IF x \in Range(s)
    THEN (CHOOSE i \in 1..Len(s) : s[i] = x /\ \A j \in 1..(i - 1) : s[j] # x) - 1
    ELSE -1

\* Array.prototype.splice(index, 1) for index >= 0: the array without that element.
splice(s, index) == SubSeq(s, 1, index) \o SubSeq(s, index + 2, Len(s))

\* Position (1-based) of x in a history sequence, 0 when absent.
Pos(s, x) == indexOf(s, x) + 1

\* The shape of the state.
TypeOK ==
  /\ queue \in Seq(Reqs)
  /\ processing \in BOOLEAN
  /\ timeoutId \in [Reqs -> BOOLEAN]
  /\ running \subseteq Reqs
  /\ result \in [Reqs -> Results]
  /\ \A r \in Reqs : execCount[r] \in Nat /\ settleCount[r] \in Nat /\ timerFired[r] \in Nat
  /\ Range(accepted) \subseteq Reqs /\ Range(started) \subseteq Reqs
  /\ Range(delivered) \subseteq Reqs
  /\ now \in 0..MaxTime
  /\ \A i \in 1..Len(sessions) :
       /\ sessions[i].id \in Ids
       /\ sessions[i].lastActivityAt \in 0..MaxTime
       /\ sessions[i].messageCount \in Nat
  /\ page \in [Ids -> {"none", "open", "closing", "closed", "leaked"}]
  /\ nextId \in 1..(NumReqs + 1)
  /\ pc \in [Reqs -> {"idle", "cleanup", "evict", "newPage", "goto", "queued", "done",
                      "sweep", "close", "deleted", "notFound"}]
  /\ sid \in [Reqs -> {0} \cup Ids]
  /\ isFirstMessage \in [Reqs -> BOOLEAN]
  /\ createdNow \in [Reqs -> 0..MaxTime]
  /\ target \in [Reqs -> {0, FakeId} \cup Ids]
  /\ \A r \in Reqs : Range(todo[r]) \subseteq Ids
  /\ step \in [Reqs -> 0..7]
  /\ http \in [Reqs -> {0, 200, 400, 404, 500}]
  /\ \A r \in Reqs : sweptIds[r] \subseteq Ids
  /\ \A r \in Reqs : response[r].session_id \in {0} \cup Ids /\ response[r].role \in {"", "assistant"}
  /\ context \in {0} \cup CtxIds /\ bpage \in {0} \cup CtxIds
  /\ initialized \in BOOLEAN /\ currentHeadless \in BOOLEAN
  /\ initializing \in {-1} \cup Calls
  /\ \A k \in CtxIds : /\ ctx[k].state \in {"none", "launching", "live", "closing", "closed", "failed"}
                        /\ ctx[k].headless \in BOOLEAN
  /\ nextCtx \in 1..(NumCalls + 1)
  /\ ipc \in [Calls -> {"idle", "close", "launch", "newPage", "front", "joined",
                         "returned", "threw"}]
  /\ \A c \in Calls : op[c].name \in {"none", "initialize", "close", "shutdown"}
  /\ cx \in [Calls -> {0} \cup CtxIds]
  /\ joinedTo \in [Calls -> {-1} \cup Calls]
  /\ observed \in BOOLEAN /\ serving \in BOOLEAN
  /\ attempts \in Nat /\ waited \in 0..loginTimeoutMs
  /\ exitCode \in {-1, 0, 1}
  /\ mpc \in {"start", "check.init", "check.goto", "login.close",
              "login.init", "login.goto", "login.look", "login.sleep",
              "done.close", "done.init", "serving", "exited"}
  /\ xpc \in {"idle", "surface", "newChat", "selectModel", "send", "stopWait", "poll",
              "extract", "returned", "failed"}
  /\ xfirst \in BOOLEAN
  /\ \A i \in 1..Len(xops) : xops[i].op \in STRING /\ xops[i].out \in STRING
  /\ xswallowed \subseteq 1..6
  /\ xclock \in 0..(responseTimeout + MaxPollDelay)
  /\ xstarted \in -1..responseTimeout
  /\ xsawAt \in -1..(responseTimeout + MaxPollDelay)
  /\ xobs.polled \in BOOLEAN /\ xobs.stop \in BOOLEAN /\ xobs.loading \in BOOLEAN
  /\ Len(xseen) \in 0..4
  /\ Len(xels) \in 0..MaxElems
  /\ xresult.kind \in {"pending", "text", "error"}
  /\ xgen \in {"idle", "awaited", "running", "finished"}

\* ----------------------------------------------------------- RequestQueue
\* The queue's state as one record, so that the methods compose
\* (enqueue calls processNext, the completion of execute calls processNext).
QS == [queue |-> queue, processing |-> processing, timeoutId |-> timeoutId,
       running |-> running, result |-> result, execCount |-> execCount,
       settleCount |-> settleCount, accepted |-> accepted, started |-> started,
       delivered |-> delivered, timerFired |-> timerFired]

SetQ(q) ==
  /\ queue' = q.queue
  /\ processing' = q.processing
  /\ timeoutId' = q.timeoutId
  /\ running' = q.running
  /\ result' = q.result
  /\ execCount' = q.execCount
  /\ settleCount' = q.settleCount
  /\ accepted' = q.accepted
  /\ started' = q.started
  /\ delivered' = q.delivered
  /\ timerFired' = q.timerFired

\* Settling the promise of item r: the first settlement decides (a promise
\* settles once), every delivery is counted.
settle(q, r, how) ==
  [q EXCEPT !.result[r] = IF q.result[r] = "pending" THEN how ELSE q.result[r],
            !.settleCount[r] = q.settleCount[r] + 1]

\* Defective variants of processNext: without the test of `processing`,
\* taking the last item instead of the first, and without clearTimeout.
processNext_NoBusyCheck(q) ==
  IF Len(q.queue) = 0
    THEN q
    ELSE LET item == Head(q.queue) IN
         [q EXCEPT !.processing = TRUE,
                   !.queue = Tail(q.queue),
                   !.timeoutId[item] = FALSE,
                   !.running = q.running \cup {item},
                   !.execCount[item] = q.execCount[item] + 1,
                   !.started = Append(q.started, item)]

processNext_Pop(q) ==
  IF q.processing \/ Len(q.queue) = 0
    THEN q
    ELSE LET item == q.queue[Len(q.queue)] IN
         [q EXCEPT !.processing = TRUE,
                   !.queue = SubSeq(q.queue, 1, Len(q.queue) - 1),
                   !.timeoutId[item] = FALSE,
                   !.running = q.running \cup {item},
                   !.execCount[item] = q.execCount[item] + 1,
                   !.started = Append(q.started, item)]

processNext_NoClearTimeout(q) ==
  IF q.processing \/ Len(q.queue) = 0
    THEN q
    ELSE LET item == Head(q.queue) IN
         [q EXCEPT !.processing = TRUE,
                   !.queue = Tail(q.queue),
                   !.running = q.running \cup {item},
                   !.execCount[item] = q.execCount[item] + 1,
                   !.started = Append(q.started, item)]

\* processNext up to its await: returns when busy or nothing waits, otherwise
\* marks the queue busy, shifts the head, clears its timer and calls execute().
processNext(q) ==
  IF q.processing \/ Len(q.queue) = 0
    THEN q
    ELSE LET item == Head(q.queue) IN
         [q EXCEPT !.processing = TRUE,
                   !.queue = Tail(q.queue),
                   !.timeoutId[item] = FALSE,
                   !.running = q.running \cup {item},
                   !.execCount[item] = q.execCount[item] + 1,
                   !.started = Append(q.started, item)]

\* Defective variant of enqueue: `>` for `>=` in the size check.
enqueue_OffByOne(q, r) ==
  IF Len(q.queue) > maxQueueSize
    THEN settle(q, r, "QueueFull")
    ELSE processNext([q EXCEPT !.timeoutId[r] = TRUE,
                               !.queue = Append(q.queue, r),
                               !.accepted = Append(q.accepted, r)])

\* enqueue(execute) for item r: throws when the waiting list is full, otherwise
\* arms the timer, pushes the item and calls processNext.
enqueue(q, r) ==
  IF Len(q.queue) >= maxQueueSize
    THEN settle(q, r, "QueueFull")
    ELSE processNext([q EXCEPT !.timeoutId[r] = TRUE,
                               !.queue = Append(q.queue, r),
                               !.accepted = Append(q.accepted, r)])

\* Defective variant of the timeout callback: rejects without the splice.
onTimeout_NoSplice(q, r) ==
  LET index == indexOf(q.queue, r)
      fired == [q EXCEPT !.timeoutId[r] = FALSE,
                         !.timerFired[r] = q.timerFired[r] + 1] IN
  IF index # -1
    THEN settle(fired, r, "QueueTimeout")
    ELSE fired

\* The setTimeout callback of item r.
onTimeout(q, r) ==
  LET index == indexOf(q.queue, r)
      fired == [q EXCEPT !.timeoutId[r] = FALSE,
                         !.timerFired[r] = q.timerFired[r] + 1] IN
  IF index # -1
    THEN settle([fired EXCEPT !.queue = splice(q.queue, index)], r, "QueueTimeout")
    ELSE fired

\* Defective variant of the completion: a failed item is put back at the head.
afterExecute_Retry(q, r, ok) ==
  LET done == [settle(q, r, IF ok THEN "ok" ELSE "OpError")
                 EXCEPT !.running = q.running \ {r},
                        !.delivered = Append(q.delivered, r)] IN
  processNext([done EXCEPT !.processing = FALSE,
                           !.queue = IF ok THEN done.queue ELSE <<r>> \o done.queue])

\* Defective variant of the completion: the finally block calls processNext
\* and leaves `processing` set.
afterExecute_StayBusy(q, r, ok) ==
  processNext([settle(q, r, IF ok THEN "ok" ELSE "OpError")
                 EXCEPT !.running = q.running \ {r},
                        !.delivered = Append(q.delivered, r)])

\* Defective variant of the completion: the finally block frees the queue
\* and does not call processNext.
afterExecute_NoNext(q, r, ok) ==
  [settle(q, r, IF ok THEN "ok" ELSE "OpError")
     EXCEPT !.running = q.running \ {r},
            !.delivered = Append(q.delivered, r),
            !.processing = FALSE]

\* processNext after its await: execute() of item r has completed (ok: it
\* resolved, otherwise it threw); the outcome is delivered, then the finally
\* block frees the queue and calls processNext.
afterExecute(q, r, ok) ==
  LET done == [settle(q, r, IF ok THEN "ok" ELSE "OpError")
                 EXCEPT !.running = q.running \ {r},
                        !.delivered = Append(q.delivered, r)] IN
  processNext([done EXCEPT !.processing = FALSE])

\* clear(): every waiting item has its timer cleared and is rejected, in
\* list order; the list is replaced by an empty one.
RECURSIVE rejectAll(_, _)
rejectAll(q, items) ==
  IF items = <<>>
    THEN q
    ELSE rejectAll(settle([q EXCEPT !.timeoutId[Head(items)] = FALSE],
                          Head(items), "QueueShutdown"),
                   Tail(items))

\* Defective variant of clear: the list is not replaced.
clear_KeepList(q) == rejectAll(q, q.queue)

clear(q) == [rejectAll(q, q.queue) EXCEPT !.queue = <<>>]

\* --------------------------------------------------------- SessionManager
\* The registry is a sequence of records [id, lastActivityAt, messageCount]
\* in Map insertion order; the page of session id is page[id].
ids(ss) == {ss[i].id : i \in 1..Len(ss)}

hasSession(ss, id) == id \in ids(ss)

getSession(ss, id) == ss[CHOOSE i \in 1..Len(ss) : ss[i].id = id]

\* Map.delete
deleteSession(ss, id) == SelectSeq(ss, LAMBDA s : s.id # id)

\* Defective variant of the bump: every session is stamped.
bumpSession_All(ss, id, t) ==
  [i \in 1..Len(ss) |-> [ss[i] EXCEPT !.lastActivityAt = t]]

\* getOrCreateSession on an existing session: lastActivityAt = Date.now()
bumpSession(ss, id, t) ==
  [i \in 1..Len(ss) |->
     IF ss[i].id = id THEN [ss[i] EXCEPT !.lastActivityAt = t] ELSE ss[i]]

\* Defective variant of touchSession: an unknown id gets an entry.
touchSession_Upsert(ss, id, t) ==
  IF hasSession(ss, id)
    THEN [i \in 1..Len(ss) |->
            IF ss[i].id = id
              THEN [ss[i] EXCEPT !.lastActivityAt = t, !.messageCount = ss[i].messageCount + 1]
              ELSE ss[i]]
    ELSE Append(ss, [id |-> id, lastActivityAt |-> t, messageCount |-> 1])

\* touchSession: a no-op on an unknown id
touchSession(ss, id, t) ==
  [i \in 1..Len(ss) |->
     IF ss[i].id = id
       THEN [ss[i] EXCEPT !.lastActivityAt = t, !.messageCount = ss[i].messageCount + 1]
       ELSE ss[i]]

\* Defective variant of the expiry test: `>=` for `>`.
expiredIds_AtThreshold(ss, t) ==
  LET old == SelectSeq(ss, LAMBDA s : t - s.lastActivityAt >= timeoutMs) IN
  [i \in 1..Len(old) |-> old[i].id]

\* cleanupExpiredSessions, first loop: the expired ids in Map order
expiredIds(ss, t) ==
  LET old == SelectSeq(ss, LAMBDA s : t - s.lastActivityAt > timeoutMs) IN
  [i \in 1..Len(old) |-> old[i].id]

\* Defective variant of getOldestSession: `<=` for `<`, the last entry with
\* the smallest lastActivityAt.
getOldestSession_LastOnTie(ss) ==
  ss[CHOOSE i \in 1..Len(ss) :
       /\ \A j \in 1..Len(ss) : ss[i].lastActivityAt <= ss[j].lastActivityAt
       /\ \A j \in (i + 1)..Len(ss) : ss[j].lastActivityAt > ss[i].lastActivityAt]

\* getOldestSession: the first entry with the smallest lastActivityAt
getOldestSession(ss) ==
  ss[CHOOSE i \in 1..Len(ss) :
       /\ \A j \in 1..Len(ss) : ss[i].lastActivityAt <= ss[j].lastActivityAt
       /\ \A j \in 1..(i - 1) : ss[j].lastActivityAt > ss[i].lastActivityAt]

\* getStats: the registry as GET /v1/sessions and /health report it. The
\* clock counts in units of 30 minutes, idleMinutes in minutes.
getStats(ss, t) ==
  [activeSessions |-> Len(ss),
   maxSessions |-> maxSessions,
   sessions |-> [i \in 1..Len(ss) |->
                   [id |-> ss[i].id, lastActivityAt |-> ss[i].lastActivityAt,
                    messageCount |-> ss[i].messageCount,
                    idleMinutes |-> (t - ss[i].lastActivityAt) * 30]]]

\* closeSession returns false at once for an id that is not registered: the
\* loop of cleanupExpiredSessions goes on to the next id.
RECURSIVE dropAbsent(_, _)
dropAbsent(ss, list) ==
  IF list = <<>> THEN <<>>
  ELSE IF hasSession(ss, Head(list)) THEN list
  ELSE dropAbsent(ss, Tail(list))

\* Where createSession suspends next, as [pc, target, todo].
\* After cleanupExpiredSessions: evict the oldest when still at capacity,
\* otherwise open the page.
afterCleanup(ss) ==
  IF Len(ss) >= maxSessions
    THEN [pc |-> "evict", target |-> getOldestSession(ss).id, todo |-> <<>>]
    ELSE [pc |-> "newPage", target |-> 0, todo |-> <<>>]

\* The second loop of cleanupExpiredSessions over the ids still to close.
cleanupLoop(ss, list) ==
  LET live == dropAbsent(ss, list) IN
  IF live = <<>>
    THEN afterCleanup(ss)
    ELSE [pc |-> "cleanup", target |-> Head(live), todo |-> Tail(live)]

\* createSession from its entry to its first suspension.
createSession(ss, t) ==
  IF Len(ss) >= maxSessions
    THEN cleanupLoop(ss, expiredIds(ss, t))
    ELSE [pc |-> "newPage", target |-> 0, todo |-> <<>>]

\* createSession, last statements: the session enters the Map with message
\* count 0 and the `now` read before page.goto.
registered(ss, id, t) ==
  Append(ss, [id |-> id, lastActivityAt |-> t, messageCount |-> 0])

\* The ids cleanupExpiredSessions collects when createSession calls it (none
\* when the registry is below capacity: the sweep is not run).
sweepSnapshot(ss, t) ==
  IF Len(ss) >= maxSessions THEN Range(expiredIds(ss, t)) ELSE {}

\* ------------------------------------------------ handleChatCompletion
\* req.body of a request without any field ({}).
EmptyBody ==
  [messagesKind |-> "absent", messages |-> <<>>, stream |-> FALSE, model |-> "",
   session_id |-> 0]

\* ----------------------------------------------------------------- models
\* The model names requests carry here: "" is an absent or empty name,
\* " GPT-4o " an alias in other case with blanks around it, "constructor" the
\* name of a property every JavaScript object inherits.
ModelInputs == {"", "copilot-auto", " GPT-4o ", "not-a-real-model", "constructor"}

\* modelName.toLowerCase().trim() on those names.
normalized(m) == IF m = " GPT-4o " THEN "gpt-4o" ELSE m

\* The own properties of the object literal modelMapping.
modelMapping ==
  [k \in {"copilot-auto", "auto", "copilot-quick", "gpt-4o", "gpt-4o-mini", "gpt-4",
          "gpt-3.5-turbo", "copilot-think", "o1", "o1-mini", "o1-preview",
          "gpt-5.2", "gpt-5.2-quick", "gpt-5", "gpt-5.2-think", "o3", "o3-mini"} |->
     CASE k \in {"copilot-auto", "auto"} -> "Auto"
       [] k \in {"copilot-quick", "gpt-4o", "gpt-4o-mini", "gpt-4", "gpt-3.5-turbo"}
            -> "Quick response"
       [] k \in {"copilot-think", "o1", "o1-mini", "o1-preview"} -> "Think deeper"
       [] k \in {"gpt-5.2", "gpt-5.2-quick", "gpt-5"} -> "GPT-5.2 Quick response"
       [] OTHER -> "GPT-5.2 Think deeper"]

\* The property names in lower case that modelMapping, an object literal,
\* inherits from Object.prototype: the lookup modelMapping[normalized] finds
\* them along the prototype chain.
ObjectPrototypeKeys == {"constructor", "__proto__"}

\* mapModelName: modelMapping[normalized] || null. An inherited property is a
\* function or an object, hence truthy, and is returned as it is.
mapModelName(m) ==
  LET n == normalized(m) IN
  IF n \in DOMAIN modelMapping THEN modelMapping[n]
  ELSE IF n \in ObjectPrototypeKeys THEN "[inherited]"
  ELSE "null"

isValidModel(m) == mapModelName(m) # "null"

\* ------------------------------------------------ handleChatCompletion
\* body.messages as requests carry it: absent, not an array, or an array of
\* messages [role, content].
Msg(role, content) == [role |-> role, content |-> content]

MessagesInputs ==
  {[kind |-> "absent", msgs |-> <<>>],
   [kind |-> "notArray", msgs |-> <<>>],
   [kind |-> "array", msgs |-> <<>>],
   [kind |-> "array", msgs |-> <<Msg("user", "c1")>>],
   [kind |-> "array", msgs |-> <<Msg("assistant", "c1")>>],
   [kind |-> "array", msgs |-> <<Msg("system", "c1"), Msg("user", "c2")>>],
   [kind |-> "array", msgs |-> <<Msg("user", "c1"), Msg("assistant", "c2")>>],
   [kind |-> "array", msgs |-> <<Msg("user", "c1"), Msg("assistant", "c2"), Msg("user", "c3")>>]}

\* The checks at the head of handleChatCompletion, in their order: the code
\* of the 400 response, or "" when the request passes.
validate(b) ==
  IF b.messagesKind # "array" \/ Len(b.messages) = 0 THEN "invalid_messages"
  ELSE IF b.stream THEN "streaming_not_supported"
  ELSE IF b.model # "" /\ ~isValidModel(b.model) THEN "model_not_found"
  ELSE ""

\* formatMessagesAsPrompt: the prompt as the parts that join('\n\n') puts
\* together, each the prefix line of its role ("" for none) and the content.
formatMessagesAsPrompt(ms) ==
  IF Len(ms) = 1
    THEN <<[prefix |-> "", content |-> ms[1].content]>>
    ELSE [i \in 1..Len(ms) |->
            [prefix |-> CASE ms[i].role = "system" -> "[System Instructions]"
                          [] ms[i].role = "assistant" -> "[Previous Assistant Response]"
                          [] OTHER -> "",
             content |-> ms[i].content]]

\* Defective variant of the selection: the first user message is taken.
lastUserMessage_First(ms) ==
  IF \E i \in 1..Len(ms) : ms[i].role = "user"
    THEN CHOOSE i \in 1..Len(ms) :
           ms[i].role = "user" /\ \A j \in 1..(i - 1) : ms[j].role # "user"
    ELSE 0

\* [...body.messages].reverse().find(m => m.role === 'user'): the position of
\* the last user message, 0 for undefined.
lastUserMessage(ms) ==
  IF \E i \in 1..Len(ms) : ms[i].role = "user"
    THEN CHOOSE i \in 1..Len(ms) :
           ms[i].role = "user" /\ \A j \in (i + 1)..Len(ms) : ms[j].role # "user"
    ELSE 0

\* The handler's messageToSend: the whole prompt on the first message of a
\* session, the content of the last user message afterwards.
prompt(ms, first) ==
  IF first THEN formatMessagesAsPrompt(ms)
  ELSE <<[prefix |-> "", content |-> ms[lastUserMessage(ms)].content]>>

\* Defective variant of the hand-over: chatCompletionOnPage is called at once,
\* not through the queue.
submitExchange_Direct(q, r) ==
  [q EXCEPT !.running = q.running \cup {r},
            !.execCount[r] = q.execCount[r] + 1,
            !.accepted = Append(q.accepted, r),
            !.started = Append(q.started, r)]

\* The handler hands the exchange of request r to the queue
\* (requestQueue.enqueue(async () => chatCompletionOnPage(...))).
submitExchange(q, r) == enqueue(q, r)

\* An exchange begins in the call of execute(): the items a queue operation
\* has started are at their first step.
stepsStarted(q) ==
  [x \in Reqs |-> IF x \in q.running \ running THEN 1 ELSE step[x]]

\* The requests whose enqueue promise a queue operation has just settled:
\* their handlers resume before the event loop takes the next callback.
answered(q) == {r \in Reqs : result[r] = "pending" /\ q.result[r] # "pending"}

\* handleChatCompletion after `await requestQueue.enqueue(...)`: on success
\* touchSession(session.id) and the 200 response, in the catch block the 500.
resumedPc(q, base) == [r \in Reqs |-> IF r \in answered(q) THEN "done" ELSE base[r]]

resumedHttp(q) ==
  [r \in Reqs |-> IF r \in answered(q)
                    THEN (IF q.result[r] = "ok" THEN 200 ELSE 500)
                    ELSE http[r]]

resumedCode(q) ==
  [r \in Reqs |-> IF r \in answered(q) /\ q.result[r] # "ok"
                    THEN "internal_error"
                    ELSE errorCode[r]]

\* Defective variant of the 200 response: the session_id of the request is
\* echoed when there is one.
resumedResponse_Requested(q) ==
  [r \in Reqs |-> IF r \in answered(q) /\ q.result[r] = "ok"
                    THEN [session_id |-> IF body[r].session_id # 0
                                           THEN body[r].session_id ELSE sid[r],
                          role |-> "assistant"]
                    ELSE response[r]]

\* The 200 response: session_id is session.id, the role a literal.
resumedResponse(q) ==
  [r \in Reqs |-> IF r \in answered(q) /\ q.result[r] = "ok"
                    THEN [session_id |-> sid[r], role |-> "assistant"]
                    ELSE response[r]]

\* The request objects of the requests already answered are dropped when the
\* next request is received.
received(f, r, v, empty) ==
  [x \in Reqs |-> IF x = r THEN v ELSE IF pc[x] = "done" THEN empty ELSE f[x]]

resumedSessions(q, ss, held, t) ==
  IF \E r \in answered(q) : q.result[r] = "ok"
    THEN touchSession(ss, held[CHOOSE r \in answered(q) : q.result[r] = "ok"], t)
    ELSE ss

SetCreate(r, c) ==
  /\ pc' = [pc EXCEPT ![r] = c.pc]
  /\ target' = [target EXCEPT ![r] = c.target]
  /\ todo' = [todo EXCEPT ![r] = c.todo]
  /\ page' = IF c.target # 0 THEN [page EXCEPT ![c.target] = "closing"] ELSE page

\* A request arrives that fails one of the checks at the head of the handler:
\* it is answered 400 and nothing else happens.
ChatRejected(r, b) ==
  /\ UNCHANGED <<bvars, mvars, xvars>>
  /\ pc[r] = "idle"
  /\ \A p \in Clients : p < r => pc[p] # "idle"
  /\ validate(b) # ""
  /\ pc' = [pc EXCEPT ![r] = "done"]
  /\ http' = [http EXCEPT ![r] = 400]
  /\ errorCode' = [errorCode EXCEPT ![r] = validate(b)]
  /\ body' = received(body, r, b, EmptyBody)
  /\ messageToSend' = received(messageToSend, r, <<>>, <<>>)
  /\ UNCHANGED <<qvars, now, sessions, page, nextId, sid, isFirstMessage, createdNow,
                 target, todo, step, sweptIds, response>>

\* A request arrives naming an existing session: getOrCreateSession bumps and
\* returns it, and the handler enqueues the exchange, or answers 400 when the
\* session is not at its first message and the request holds no user message.
ArriveExisting(r, b) ==
  /\ UNCHANGED <<bvars, mvars, xvars>>
  /\ pc[r] = "idle"
  /\ \A p \in Clients : p < r => pc[p] # "idle"
  /\ validate(b) = ""
  /\ hasSession(sessions, b.session_id)
  /\ sid' = [sid EXCEPT ![r] = b.session_id]
  /\ body' = received(body, r, b, EmptyBody)
  /\ LET first == getSession(sessions, b.session_id).messageCount = 0 IN
       /\ isFirstMessage' = [isFirstMessage EXCEPT ![r] = first]
       /\ IF ~first /\ lastUserMessage(b.messages) = 0
            THEN /\ pc' = [pc EXCEPT ![r] = "done"]
                 /\ http' = [http EXCEPT ![r] = 400]
                 /\ errorCode' = [errorCode EXCEPT ![r] = "no_user_message"]
                 /\ messageToSend' = received(messageToSend, r, <<>>, <<>>)
                 /\ sessions' = bumpSession(sessions, b.session_id, now)
                 /\ UNCHANGED <<qvars, step, response>>
            ELSE LET q == submitExchange(QS, r) IN
                 /\ SetQ(q)
                 /\ step' = stepsStarted(q)
                 /\ pc' = resumedPc(q, [pc EXCEPT ![r] = "queued"])
                 /\ http' = resumedHttp(q)
                 /\ errorCode' = resumedCode(q)
                 /\ response' = resumedResponse(q)
                 /\ messageToSend' = received(messageToSend, r, prompt(b.messages, first), <<>>)
                 /\ sessions' = bumpSession(sessions, b.session_id, now)
  /\ UNCHANGED <<now, page, nextId, createdNow, target, todo, sweptIds>>

\* A request arrives with no session_id (0) or with one that is not
\* registered: createSession runs to its first suspension.
ArriveNew(r, b) ==
  /\ UNCHANGED <<bvars, mvars, xvars>>
  /\ pc[r] = "idle"
  /\ \A p \in Clients : p < r => pc[p] # "idle"
  /\ validate(b) = ""
  /\ ~hasSession(sessions, b.session_id)
  /\ SetCreate(r, createSession(sessions, now))
  /\ sweptIds' = [sweptIds EXCEPT ![r] = sweepSnapshot(sessions, now)]
  /\ body' = received(body, r, b, EmptyBody)
  /\ messageToSend' = received(messageToSend, r, <<>>, <<>>)
  /\ UNCHANGED <<qvars, now, sessions, nextId, sid, isFirstMessage, createdNow, step, http,
                 errorCode, response>>

\* page.close() awaited by closeSession (from the idle cleanup or the eviction
\* in createSession) ends, with or without an error: the session is deleted.
CloseDone(r) ==
  /\ UNCHANGED <<bvars, mvars, xvars>>
  /\ pc[r] \in {"cleanup", "evict"}
  /\ LET ss == deleteSession(sessions, target[r])
         c == IF pc[r] = "cleanup"
                THEN cleanupLoop(ss, todo[r])
                ELSE [pc |-> "newPage", target |-> 0, todo |-> <<>>]
         closed == [page EXCEPT ![target[r]] = "closed"]
     IN /\ sessions' = ss
        /\ pc' = [pc EXCEPT ![r] = c.pc]
        /\ target' = [target EXCEPT ![r] = c.target]
        /\ todo' = [todo EXCEPT ![r] = c.todo]
        /\ page' = IF c.target # 0 THEN [closed EXCEPT ![c.target] = "closing"] ELSE closed
  /\ UNCHANGED <<qvars, now, nextId, sid, isFirstMessage, createdNow, step, http,
                 sweptIds, hvars>>

\* Defective variant of the minting: the session takes the identifier the
\* caller asked for when there is one.
NewPageDone_Requested(r) ==
  /\ UNCHANGED <<bvars, mvars, xvars>>
  /\ pc[r] = "newPage"
  /\ nextId \in Ids
  /\ LET id == IF body[r].session_id \in Ids THEN body[r].session_id ELSE nextId IN
       /\ sid' = [sid EXCEPT ![r] = id]
       /\ nextId' = IF id = nextId THEN nextId + 1 ELSE nextId
       /\ page' = [page EXCEPT ![id] = "open"]
  /\ createdNow' = [createdNow EXCEPT ![r] = now]
  /\ pc' = [pc EXCEPT ![r] = "goto"]
  /\ UNCHANGED <<qvars, now, sessions, isFirstMessage, target, todo, step, http,
                 sweptIds, hvars>>

\* context.newPage() resolves: the id is minted, now is read, page.goto starts.
NewPageDone(r) ==
  /\ UNCHANGED <<bvars, mvars, xvars>>
  /\ pc[r] = "newPage"
  /\ nextId \in Ids
  /\ sid' = [sid EXCEPT ![r] = nextId]
  /\ nextId' = nextId + 1
  /\ page' = [page EXCEPT ![nextId] = "open"]
  /\ createdNow' = [createdNow EXCEPT ![r] = now]
  /\ pc' = [pc EXCEPT ![r] = "goto"]
  /\ UNCHANGED <<qvars, now, sessions, isFirstMessage, target, todo, step, http,
                 sweptIds, hvars>>

\* context.newPage() or page.goto() throws: the handler answers 500.
CreateFail(r) ==
  /\ UNCHANGED <<bvars, mvars, xvars>>
  /\ pc[r] \in {"newPage", "goto"}
  /\ pc' = [pc EXCEPT ![r] = "done"]
  /\ http' = [http EXCEPT ![r] = 500]
  /\ errorCode' = [errorCode EXCEPT ![r] = "internal_error"]
  /\ sid' = [sid EXCEPT ![r] = 0]
  /\ createdNow' = [createdNow EXCEPT ![r] = 0]
  /\ UNCHANGED <<qvars, now, sessions, page, nextId, isFirstMessage, target, todo, step,
                 sweptIds, body, messageToSend, response>>

\* page.goto() resolves: the session is registered with message count 0 and
\* returned; the handler enqueues the exchange.
GotoDone(r) ==
  /\ UNCHANGED <<bvars, mvars, xvars>>
  /\ pc[r] = "goto"
  /\ createdNow' = [createdNow EXCEPT ![r] = 0]
  /\ isFirstMessage' = [isFirstMessage EXCEPT ![r] = TRUE]
  /\ LET q == submitExchange(QS, r) IN
       /\ SetQ(q)
       /\ step' = stepsStarted(q)
       /\ pc' = resumedPc(q, [pc EXCEPT ![r] = "queued"])
       /\ http' = resumedHttp(q)
       /\ errorCode' = resumedCode(q)
       /\ response' = resumedResponse(q)
       /\ sessions' = registered(sessions, sid[r], createdNow[r])
  /\ messageToSend' = [messageToSend EXCEPT ![r] = prompt(body[r].messages, TRUE)]
  /\ UNCHANGED <<now, page, nextId, sid, target, todo, sweptIds, body>>

\* ------------------------------------------------ chatCompletionOnPage
\* Defective variant of the step order: the message is submitted right after
\* the surface check, first message or not.
nextStep_SkipSetup(k, first) ==
  IF k = 1 THEN 4 ELSE k + 1

\* Steps: 1 EnsureOnSurface, 2 NewConversation, 3 SelectModel,
\* 4 SubmitMessage, 5 AwaitCompletion, 6 ExtractResponse.
nextStep(k, first) ==
  IF k = 1 THEN (IF first THEN 2 ELSE 4) ELSE k + 1

\* Steps that can throw out of the exchange: the navigation of
\* ensureOnCopilot, sendMessageOnPage with its wait and extraction, and
\* selectModelOnPage, whose catch block awaits page.keyboard.press('Escape').
\* startNewChatOnPage catches everything.
FatalSteps == {1, 3, 4, 5, 6}

\* The step in progress of the exchange of r ends, well or with a failure the
\* step swallows: the exchange moves to its next step, or returns the
\* response after the last one.
StepOk(r) ==
  /\ UNCHANGED <<bvars, mvars, xvars>>
  /\ r \in running
  /\ step[r] \in 1..6
  /\ IF step[r] = 6
       THEN LET q == afterExecute(QS, r, TRUE) IN
            /\ SetQ(q)
            /\ step' = [stepsStarted(q) EXCEPT ![r] = 7]
            /\ pc' = resumedPc(q, pc)
            /\ http' = resumedHttp(q)
            /\ errorCode' = resumedCode(q)
            /\ response' = resumedResponse(q)
            /\ sessions' = resumedSessions(q, sessions, sid, now)
       ELSE /\ step' = [step EXCEPT ![r] = nextStep(step[r], isFirstMessage[r])]
            /\ UNCHANGED <<qvars, pc, http, sessions, errorCode, response>>
  /\ UNCHANGED <<now, page, nextId, sid, isFirstMessage, createdNow, target, todo,
                 sweptIds, body, messageToSend>>

\* The step in progress of the exchange of r throws: the exchange fails.
StepFail(r) ==
  /\ UNCHANGED <<bvars, mvars, xvars>>
  /\ r \in running
  /\ step[r] \in FatalSteps
  /\ LET q == afterExecute(QS, r, FALSE) IN
       /\ SetQ(q)
       /\ step' = [stepsStarted(q) EXCEPT ![r] = 7]
       /\ pc' = resumedPc(q, pc)
       /\ http' = resumedHttp(q)
       /\ errorCode' = resumedCode(q)
       /\ response' = resumedResponse(q)
  /\ UNCHANGED <<now, sessions, page, nextId, sid, isFirstMessage, createdNow,
                 target, todo, sweptIds, body, messageToSend>>

\* The queue timer of the item of request r fires.
TimerFire(r) ==
  /\ UNCHANGED <<bvars, mvars, xvars>>
  /\ timeoutId[r]
  /\ LET q == onTimeout(QS, r) IN
       /\ SetQ(q)
       /\ pc' = resumedPc(q, pc)
       /\ http' = resumedHttp(q)
       /\ errorCode' = resumedCode(q)
       /\ response' = resumedResponse(q)
  /\ UNCHANGED <<now, sessions, page, nextId, sid, isFirstMessage, createdNow,
                 target, todo, step, sweptIds, body, messageToSend>>

\* Time passes.
Tick ==
  /\ UNCHANGED <<bvars, mvars, xvars>>
  /\ now < MaxTime
  /\ now' = now + 1
  /\ UNCHANGED <<qvars, sessions, page, nextId, pc, sid, isFirstMessage, createdNow,
                 target, todo, step, http, sweptIds, hvars>>

\* ------------------------------------------- session-manager-level actions
\* The SessionManager driven call by call, each call awaited before the next
\* is made: getOrCreateSession, closeSession as DELETE /v1/sessions/:id makes
\* it, or cleanupExpiredSessions as the interval timer makes it. While a call
\* is suspended at an await the clock advances and sessions are touched. The
\* sessionId argument of getOrCreateSession is kept in body[r].session_id.
\* The caller keeps what the call returned until it drops it, then calls
\* again.
CanCall(r) == \A p \in Clients : pc[p] = "idle" /\ r <= p

\* The caller r drops what its call returned and is free again.
SReturn(r) ==
  /\ UNCHANGED <<bvars, mvars, xvars>>
  /\ pc[r] \in {"done", "deleted", "notFound"}
  /\ pc' = [pc EXCEPT ![r] = "idle"]
  /\ sid' = [sid EXCEPT ![r] = 0]
  /\ target' = [target EXCEPT ![r] = 0]
  /\ http' = [http EXCEPT ![r] = 0]
  /\ errorCode' = [errorCode EXCEPT ![r] = ""]
  /\ sweptIds' = [sweptIds EXCEPT ![r] = {}]
  /\ body' = [body EXCEPT ![r] = EmptyBody]
  /\ UNCHANGED <<qvars, now, sessions, page, nextId, isFirstMessage, createdNow, todo,
                 step, messageToSend, response>>

\* The session ids a caller can present: none (0), an identifier issued
\* before, or a string that is no uuid.
Presentable == {0, FakeId} \cup {id \in Ids : id < nextId}

\* getOrCreateSession(id) with id registered: bump and return the session.
SGetExisting(r, id) ==
  /\ UNCHANGED <<bvars, mvars, xvars>>
  /\ CanCall(r)
  /\ hasSession(sessions, id)
  /\ sessions' = bumpSession(sessions, id, now)
  /\ sid' = [sid EXCEPT ![r] = id]
  /\ pc' = [pc EXCEPT ![r] = "done"]
  /\ body' = [body EXCEPT ![r].session_id = id]
  /\ UNCHANGED <<qvars, now, page, nextId, isFirstMessage, createdNow, target, todo,
                 step, http, sweptIds, messageToSend, errorCode, response>>

\* getOrCreateSession(want) with no id or an id that is not registered:
\* createSession runs to its first suspension.
SCreate(r, want) ==
  /\ UNCHANGED <<bvars, mvars, xvars>>
  /\ CanCall(r)
  /\ nextId <= NumSessions
  /\ ~hasSession(sessions, want)
  /\ SetCreate(r, createSession(sessions, now))
  /\ sweptIds' = [sweptIds EXCEPT ![r] = sweepSnapshot(sessions, now)]
  /\ body' = [body EXCEPT ![r].session_id = want]
  /\ UNCHANGED <<qvars, now, sessions, nextId, sid, isFirstMessage, createdNow, step,
                 http, messageToSend, errorCode, response>>

\* page.goto() resolves in createSession: the session is registered and
\* returned to the caller.
SRegister(r) ==
  /\ UNCHANGED <<bvars, mvars, xvars>>
  /\ pc[r] = "goto"
  /\ sessions' = registered(sessions, sid[r], createdNow[r])
  /\ createdNow' = [createdNow EXCEPT ![r] = 0]
  /\ pc' = [pc EXCEPT ![r] = "done"]
  /\ UNCHANGED <<qvars, now, page, nextId, sid, isFirstMessage, target, todo, step,
                 http, sweptIds, hvars>>

\* handleDeleteSession: closeSession(id) finds the session and awaits
\* page.close().
SClose(r, id) ==
  /\ UNCHANGED <<bvars, mvars, xvars>>
  /\ CanCall(r)
  /\ hasSession(sessions, id)
  /\ pc' = [pc EXCEPT ![r] = "close"]
  /\ target' = [target EXCEPT ![r] = id]
  /\ page' = [page EXCEPT ![id] = "closing"]
  /\ UNCHANGED <<qvars, now, sessions, nextId, sid, isFirstMessage, createdNow, todo,
                 step, http, sweptIds, hvars>>

\* handleDeleteSession: closeSession(id) returns false for an id that is not
\* registered, and the handler answers 404.
SCloseUnknown(r, id) ==
  /\ UNCHANGED <<bvars, mvars, xvars>>
  /\ CanCall(r)
  /\ ~hasSession(sessions, id)
  /\ pc' = [pc EXCEPT ![r] = "notFound"]
  /\ http' = [http EXCEPT ![r] = 404]
  /\ errorCode' = [errorCode EXCEPT ![r] = "session_not_found"]
  /\ target' = [target EXCEPT ![r] = id]
  /\ UNCHANGED <<qvars, now, sessions, page, nextId, sid, isFirstMessage, createdNow,
                 todo, step, sweptIds, body, messageToSend, response>>

\* Defective variant of closeSession: an error of page.close() propagates,
\* the session stays registered and the handler fails.
SCloseDone_Propagate(r, ok) ==
  /\ UNCHANGED <<bvars, mvars, xvars>>
  /\ pc[r] = "close"
  /\ sessions' = IF ok THEN deleteSession(sessions, target[r]) ELSE sessions
  /\ page' = [page EXCEPT ![target[r]] = IF ok THEN "closed" ELSE "leaked"]
  /\ pc' = [pc EXCEPT ![r] = IF ok THEN "deleted" ELSE "done"]
  /\ http' = [http EXCEPT ![r] = IF ok THEN 200 ELSE 500]
  /\ UNCHANGED <<qvars, now, nextId, sid, isFirstMessage, createdNow, target, todo,
                 step, sweptIds, hvars>>

\* page.close() of closeSession(id) ends (ok: it resolved, otherwise it threw
\* and the error was logged): the session is deleted, closeSession returns
\* true and the handler answers 200.
SCloseDone(r, ok) ==
  /\ UNCHANGED <<bvars, mvars, xvars>>
  /\ pc[r] = "close"
  /\ sessions' = deleteSession(sessions, target[r])
  /\ page' = [page EXCEPT ![target[r]] = IF ok THEN "closed" ELSE "leaked"]
  /\ pc' = [pc EXCEPT ![r] = "deleted"]
  /\ http' = [http EXCEPT ![r] = 200]
  /\ UNCHANGED <<qvars, now, nextId, sid, isFirstMessage, createdNow, target, todo,
                 step, sweptIds, hvars>>

\* Where cleanupExpiredSessions called by the interval timer suspends next,
\* with `list` the ids its loop has still to close.
sweepLoop(ss, list) ==
  LET live == dropAbsent(ss, list) IN
  IF live = <<>>
    THEN [pc |-> "done", target |-> 0, todo |-> <<>>]
    ELSE [pc |-> "sweep", target |-> Head(live), todo |-> Tail(live)]

\* The interval timer fires: cleanupExpiredSessions collects the expired ids
\* and begins to close them.
SSweep(r) ==
  /\ UNCHANGED <<bvars, mvars, xvars>>
  /\ CanCall(r)
  /\ SetCreate(r, sweepLoop(sessions, expiredIds(sessions, now)))
  /\ sweptIds' = [sweptIds EXCEPT ![r] = Range(expiredIds(sessions, now))]
  /\ UNCHANGED <<qvars, now, sessions, nextId, sid, isFirstMessage, createdNow, step,
                 http, hvars>>

\* page.close() awaited by the interval sweep ends: the session is deleted
\* and the loop goes on.
SSweepCloseDone(r) ==
  /\ UNCHANGED <<bvars, mvars, xvars>>
  /\ pc[r] = "sweep"
  /\ LET ss == deleteSession(sessions, target[r])
         c == sweepLoop(ss, todo[r])
         closed == [page EXCEPT ![target[r]] = "closed"]
     IN /\ sessions' = ss
        /\ pc' = [pc EXCEPT ![r] = c.pc]
        /\ target' = [target EXCEPT ![r] = c.target]
        /\ todo' = [todo EXCEPT ![r] = c.todo]
        /\ page' = IF c.target # 0 THEN [closed EXCEPT ![c.target] = "closing"] ELSE closed
  /\ UNCHANGED <<qvars, now, nextId, sid, isFirstMessage, createdNow, step, http,
                 sweptIds, hvars>>

\* The interval timer fires while the server handles requests: the sweep
\* runs beside the handlers, outside the queue. A sweep that finds nothing
\* expired changes nothing.
SweepTimer(r) ==
  /\ UNCHANGED <<bvars, mvars, xvars>>
  /\ pc[r] = "idle"
  /\ \A p \in Clients : p < r => pc[p] # "idle"
  /\ expiredIds(sessions, now) # <<>>
  /\ SetCreate(r, sweepLoop(sessions, expiredIds(sessions, now)))
  /\ sweptIds' = [sweptIds EXCEPT ![r] = Range(expiredIds(sessions, now))]
  /\ UNCHANGED <<qvars, now, sessions, nextId, sid, isFirstMessage, createdNow, step,
                 http, hvars>>

\* Time passes between the requests: a request, from its arrival to its
\* answer, and a sweep last minutes at most (navigationTimeout,
\* requestTimeout, responseTimeout), the idle threshold is 30 minutes.
QuietTick ==
  /\ \A p \in Clients : pc[p] \in {"idle", "done"}
  /\ Tick

\* touchSession(id), on a registered or an unknown id.
STouch(id) ==
  /\ UNCHANGED <<bvars, mvars, xvars>>
  /\ hasSession(sessions, id) => getSession(sessions, id).messageCount < MaxMsgs
  /\ sessions' = touchSession(sessions, id, now)
  /\ UNCHANGED <<qvars, now, page, nextId, pc, sid, isFirstMessage, createdNow, target,
                 todo, step, http, sweptIds, hvars>>

\* ---------------------------------------------------- queue-level actions
\* An item that was never handed to enqueue.
IsNew(r) == result[r] = "pending" /\ r \notin Range(accepted)

\* A caller hands item r to enqueue (callers are taken in index order: the
\* items are interchangeable).
QEnqueue(r) ==
  /\ UNCHANGED <<bvars, mvars, xvars>>
  /\ IsNew(r)
  /\ \A p \in Reqs : p < r => ~IsNew(p)
  /\ SetQ(enqueue(QS, r))
  /\ UNCHANGED <<svars, xvars>>

\* The timer of item r fires.
QTimerFire(r) ==
  /\ UNCHANGED <<bvars, mvars, xvars>>
  /\ timeoutId[r]
  /\ SetQ(onTimeout(QS, r))
  /\ UNCHANGED <<svars, xvars>>

\* The operation of the running item r completes, with success or failure.
QComplete(r, ok) ==
  /\ UNCHANGED <<bvars, mvars, xvars>>
  /\ r \in running
  /\ SetQ(afterExecute(QS, r, ok))
  /\ UNCHANGED <<svars, xvars>>

\* clear() is called while items wait or run.
QClear ==
  /\ UNCHANGED <<bvars, mvars, xvars>>
  /\ queue # <<>> \/ running # {}
  /\ SetQ(clear(QS))
  /\ UNCHANGED <<svars, xvars>>

\* ---------------------------------------------------------- BrowserManager
NoOp == [name |-> "none", headless |-> TRUE]

\* The manager's state as one record, so that its methods compose.
BM == [context |-> context, page |-> bpage, initialized |-> initialized,
       initializing |-> initializing, currentHeadless |-> currentHeadless,
       ctx |-> ctx, nextCtx |-> nextCtx, ipc |-> ipc, cx |-> cx, joinedTo |-> joinedTo]

SetB(b) ==
  /\ context' = b.context
  /\ bpage' = b.page
  /\ initialized' = b.initialized
  /\ initializing' = b.initializing
  /\ currentHeadless' = b.currentHeadless
  /\ ctx' = b.ctx
  /\ nextCtx' = b.nextCtx
  /\ ipc' = b.ipc
  /\ cx' = b.cx
  /\ joinedTo' = b.joinedTo

\* The browser contexts that exist: launched and not known to be closed.
LiveContexts(c) == {k \in CtxIds : c[k].state \in {"live", "closing"}}
\* The launches in flight.
Launching(c) == {k \in CtxIds : c[k].state = "launching"}

\* this.initializing = this.doInitialize(headless), up to the await of
\* chromium.launchPersistentContext.
beginLaunch(b, c, h) ==
  [b EXCEPT !.initializing = c,
            !.ctx[b.nextCtx] = [state |-> "launching", headless |-> h],
            !.cx[c] = b.nextCtx,
            !.nextCtx = b.nextCtx + 1,
            !.ipc[c] = "launch"]

\* initialize from `if (this.initialized) return` on.
proceed(b, c, h) ==
  IF b.initialized THEN [b EXCEPT !.ipc[c] = "returned"] ELSE beginLaunch(b, c, h)

\* close() with a context: up to the await of this.context.close().
beginClose(b, c) ==
  [b EXCEPT !.ctx[b.context].state = "closing", !.cx[c] = b.context, !.ipc[c] = "close"]

\* The doInitialize promise of call o is pending.
Pending(b, o) == b.ipc[o] \in {"launch", "newPage", "front"}

\* initialize(headless) from its entry to its first suspension. A caller that
\* finds this.initializing is returned that promise: it waits for it when it is
\* pending and throws when it was rejected.
initialize(b, c, h) ==
  IF b.initializing # -1
    THEN (IF Pending(b, b.initializing)
            THEN [b EXCEPT !.ipc[c] = "joined", !.joinedTo[c] = b.initializing]
            ELSE [b EXCEPT !.ipc[c] = "threw"])
  ELSE IF b.initialized /\ b.currentHeadless # h
    THEN (IF b.context # 0 THEN beginClose(b, c) ELSE proceed(b, c, h))
  ELSE proceed(b, c, h)

\* The doInitialize promise of call c settles: the callers that were returned
\* it resume with its outcome.
settled(b, c, outcome) ==
  [b EXCEPT !.ipc = [x \in Calls |->
                       IF x = c \/ (b.ipc[x] = "joined" /\ b.joinedTo[x] = c)
                         THEN outcome ELSE b.ipc[x]]]

\* The last statements of doInitialize, and of initialize after
\* `await this.initializing`.
finish(b, c, h) ==
  settled([b EXCEPT !.initialized = TRUE, !.currentHeadless = h, !.initializing = -1],
          c, "returned")

\* doInitialize after the page is there: bringToFront in headed mode.
withPage(b, c, h) ==
  IF h THEN finish(b, c, h) ELSE [b EXCEPT !.ipc[c] = "front"]

\* The statements of close() after `await this.context.close()`.
closed(b, c) ==
  [b EXCEPT !.ctx[b.cx[c]].state = "closed",
            !.context = 0, !.page = 0, !.initialized = FALSE]

\* A caller calls initialize(headless).
BInitialize(c, h) ==
  /\ ipc[c] = "idle"
  /\ \A x \in 1..(c - 1) : ipc[x] # "idle"
  /\ nextCtx \in CtxIds
  /\ op' = [op EXCEPT ![c] = [name |-> "initialize", headless |-> h]]
  /\ SetB(initialize(BM, c, h))
  /\ UNCHANGED <<qvars, svars, xvars, mvars>>

\* A caller calls close().
BClose(c) ==
  /\ ipc[c] = "idle"
  /\ \A x \in 1..(c - 1) : ipc[x] # "idle"
  /\ op' = [op EXCEPT ![c] = [name |-> "close", headless |-> TRUE]]
  /\ SetB(IF context # 0 THEN beginClose(BM, c) ELSE [BM EXCEPT !.ipc[c] = "returned"])
  /\ UNCHANGED <<qvars, svars, xvars, mvars>>

\* this.context.close() awaited by call c resolves: close() clears the fields,
\* and initialize, when it made the call, goes on.
CloseResolved(c) ==
  /\ ipc[c] = "close" /\ op[c].name # "shutdown"
  /\ op[c].name = "initialize" => nextCtx \in CtxIds
  /\ SetB(IF op[c].name = "close"
            THEN [closed(BM, c) EXCEPT !.ipc[c] = "returned"]
            ELSE proceed(closed(BM, c), c, op[c].headless))
  /\ UNCHANGED <<qvars, svars, xvars, mvars, op>>

\* this.context.close() awaited by call c rejects: the call throws.
CloseThrew(c) ==
  /\ ipc[c] = "close" /\ op[c].name # "shutdown"
  /\ SetB([BM EXCEPT !.ipc[c] = "threw"])
  /\ UNCHANGED <<qvars, svars, xvars, mvars, op>>

\* launchPersistentContext resolves for call c: the context is stored, and
\* its first page when it has one (hasPage), otherwise newPage is awaited.
LaunchResolved(c, hasPage) ==
  /\ ipc[c] = "launch"
  /\ LET b == [BM EXCEPT !.ctx[cx[c]].state = "live", !.context = cx[c]] IN
       SetB(IF hasPage
              THEN withPage([b EXCEPT !.page = cx[c]], c, op[c].headless)
              ELSE [b EXCEPT !.ipc[c] = "newPage"])
  /\ UNCHANGED <<qvars, svars, xvars, mvars, op>>

\* context.newPage() awaited by doInitialize resolves.
NewPageResolved(c) ==
  /\ ipc[c] = "newPage"
  /\ SetB(withPage([BM EXCEPT !.page = cx[c]], c, op[c].headless))
  /\ UNCHANGED <<qvars, svars, xvars, mvars, op>>

\* page.bringToFront() ends, with or without an error.
FrontDone(c) ==
  /\ ipc[c] = "front"
  /\ SetB(finish(BM, c, op[c].headless))
  /\ UNCHANGED <<qvars, svars, xvars, mvars, op>>

\* launchPersistentContext or context.newPage() rejects: the doInitialize
\* promise is rejected, and this.initializing keeps it.
InitThrew(c) ==
  /\ ipc[c] \in {"launch", "newPage"}
  /\ SetB(settled(IF ipc[c] = "launch"
                    THEN [BM EXCEPT !.ctx[cx[c]].state = "failed"] ELSE BM,
                  c, "threw"))
  /\ UNCHANGED <<qvars, svars, xvars, mvars, op>>

\* ------------------------------------------------- main, ensureLoggedIn
\* getPage: the page, after an initialize(config.headless) when the manager
\* is not initialized or has no page.
getPage(b, c, h) ==
  IF ~b.initialized \/ b.page = 0
    THEN initialize(b, c, h)
    ELSE [b EXCEPT !.ipc[c] = "returned"]

\* A call of main has returned / has thrown.
Returned == ipc[Main] = "returned"
Threw == ipc[Main] = "threw"

\* main calls ensureLoggedIn, which calls checkLoginStatus, which awaits
\* initialize(true).
MStart ==
  /\ mpc = "start"
  /\ mpc' = "check.init"
  /\ op' = [op EXCEPT ![Main] = [name |-> "initialize", headless |-> TRUE]]
  /\ SetB(initialize(BM, Main, TRUE))
  /\ UNCHANGED <<qvars, svars, xvars, observed, attempts, waited, serving, exitCode>>

\* An await of main throws outside every try block (initialize, close,
\* getPage, or the page.goto of performLogin): ensureLoggedIn rejects, and the
\* catch of main() calls process.exit(1).
MFatal ==
  /\ \/ mpc \in {"check.init", "check.goto", "login.close", "login.init", "login.goto",
                 "done.close", "done.init"} /\ Threw
     \/ mpc = "login.goto" /\ Returned
  /\ mpc' = "exited"
  /\ exitCode' = 1
  /\ UNCHANGED <<qvars, svars, xvars, bvars, observed, attempts, waited, serving>>

\* initialize returned to checkLoginStatus or to performLogin: getPage is
\* called (configHeadless is config.headless); page.goto is called when it
\* has returned.
MGetPage(configHeadless) ==
  /\ mpc \in {"check.init", "login.init"} /\ Returned
  /\ LET b == getPage(BM, Main, configHeadless) IN
       /\ SetB(b)
       /\ op' = IF b.ipc[Main] = "returned" THEN op
                ELSE [op EXCEPT ![Main] = [name |-> "initialize", headless |-> configHeadless]]
  /\ mpc' = IF mpc = "check.init" THEN "check.goto" ELSE "login.goto"
  /\ UNCHANGED <<qvars, svars, xvars, observed, attempts, waited, serving, exitCode>>

\* ensureLoggedIn returns true to main, which calls app.listen.
serve ==
  /\ mpc' = "serving"
  /\ serving' = TRUE

\* performLogin begins: await this.close().
performLogin(b) ==
  IF b.context # 0 THEN beginClose(b, Main) ELSE [b EXCEPT !.ipc[Main] = "returned"]

\* checkLoginStatus ends: page.goto, the 3 s wait and isOnCopilotPage gave
\* `authenticated` (an error in them gives false). On true ensureLoggedIn
\* returns true; on false it calls performLogin.
MCheckDone(authenticated) ==
  /\ mpc = "check.goto" /\ Returned
  /\ IF authenticated
       THEN /\ serve
            /\ observed' = TRUE
            /\ UNCHANGED <<bvars, attempts>>
       ELSE /\ mpc' = "login.close"
            /\ attempts' = attempts + 1
            /\ op' = [op EXCEPT ![Main] = [name |-> "close", headless |-> TRUE]]
            /\ SetB(performLogin(BM))
            /\ UNCHANGED <<observed, serving>>
  /\ UNCHANGED <<qvars, svars, xvars, waited, exitCode>>

\* A close() of performLogin returned: initialize is called, headed at the
\* beginning of the login and headless after it.
MReopen ==
  /\ mpc \in {"login.close", "done.close"} /\ Returned
  /\ LET h == (mpc = "done.close") IN
       /\ mpc' = IF h THEN "done.init" ELSE "login.init"
       /\ op' = [op EXCEPT ![Main] = [name |-> "initialize", headless |-> h]]
       /\ SetB(initialize(BM, Main, h))
  /\ UNCHANGED <<qvars, svars, xvars, observed, attempts, waited, serving, exitCode>>

\* The page.goto of performLogin resolves: waitForLoginCompletion reads
\* startTime and looks at the page for the first time.
MLoginGoto ==
  /\ mpc = "login.goto" /\ Returned
  /\ mpc' = "login.look"
  /\ waited' = 0
  /\ UNCHANGED <<qvars, svars, xvars, bvars, observed, attempts, serving, exitCode>>

\* Defective variant of the end of the login: success is returned with the
\* headed browser still open.
MLook_KeepHeaded(authenticated) ==
  /\ mpc = "login.look"
  /\ IF authenticated
       THEN serve /\ observed' = TRUE
       ELSE mpc' = "login.sleep" /\ UNCHANGED <<observed, serving>>
  /\ UNCHANGED <<qvars, svars, xvars, bvars, attempts, waited, exitCode>>

\* isOnCopilotPage returns in waitForLoginCompletion. On true performLogin
\* closes the headed browser; on false the loop sleeps 2 s.
MLook(authenticated) ==
  /\ mpc = "login.look"
  /\ IF authenticated
       THEN /\ mpc' = "done.close"
            /\ observed' = TRUE
            /\ op' = [op EXCEPT ![Main] = [name |-> "close", headless |-> TRUE]]
            /\ SetB(performLogin(BM))
       ELSE /\ mpc' = "login.sleep"
            /\ UNCHANGED <<bvars, observed>>
  /\ UNCHANGED <<qvars, svars, xvars, attempts, waited, serving, exitCode>>

\* Defective variant of the timeout: the login is attempted again.
MSleepDone_Retry(d) ==
  /\ mpc = "login.sleep"
  /\ waited + d <= loginTimeoutMs
  /\ waited' = waited + d
  /\ IF waited + d < loginTimeoutMs
       THEN mpc' = "login.look" /\ UNCHANGED <<bvars, attempts>>
       ELSE /\ mpc' = "login.close"
            /\ attempts' = attempts + 1
            /\ op' = [op EXCEPT ![Main] = [name |-> "close", headless |-> TRUE]]
            /\ SetB(performLogin(BM))
  /\ UNCHANGED <<qvars, svars, xvars, observed, serving, exitCode>>

\* The sleep of waitForLoginCompletion ends, `d` units after the last reading
\* of the clock: the loop looks again while Date.now() - startTime is below
\* timeoutMs; otherwise performLogin and ensureLoggedIn return false and main
\* calls process.exit(1).
MSleepDone(d) ==
  /\ mpc = "login.sleep"
  /\ waited + d <= loginTimeoutMs
  /\ waited' = waited + d
  /\ IF waited + d < loginTimeoutMs
       THEN mpc' = "login.look" /\ UNCHANGED exitCode
       ELSE mpc' = "exited" /\ exitCode' = 1
  /\ UNCHANGED <<qvars, svars, xvars, bvars, observed, attempts, serving>>

\* The initialize(true) that ends performLogin returned: performLogin and
\* ensureLoggedIn return true.
MLoginDone ==
  /\ mpc = "done.init" /\ Returned
  /\ serve
  /\ UNCHANGED <<qvars, svars, xvars, bvars, observed, attempts, waited, exitCode>>

\* --------------------------------------------------------------- shutdown
\* Defective variant of shutdown(): the browser is closed without the queue
\* having been cleared.
Shutdown_CloseFirst(c) ==
  /\ exitCode = -1
  /\ ipc[c] = "idle"
  /\ \A x \in 1..(c - 1) : ipc[x] # "idle"
  /\ SetQ(QS)
  /\ op' = [op EXCEPT ![c] = [name |-> "shutdown", headless |-> TRUE]]
  /\ IF context # 0
       THEN /\ SetB(beginClose(BM, c))
            /\ UNCHANGED <<mpc, exitCode>>
       ELSE /\ SetB([BM EXCEPT !.ipc[c] = "returned"])
            /\ mpc' = "exited"
            /\ exitCode' = 0
  /\ UNCHANGED <<svars, xvars, observed, attempts, waited, serving>>

\* SIGINT or SIGTERM is received (the handler runs as call c): shutdown()
\* clears the queue and awaits browserManager.close(); without a context the
\* close returns at once and process.exit(0) is called.
Shutdown(c) ==
  /\ exitCode = -1
  /\ ipc[c] = "idle"
  /\ \A x \in 1..(c - 1) : ipc[x] # "idle"
  /\ SetQ(clear(QS))
  /\ op' = [op EXCEPT ![c] = [name |-> "shutdown", headless |-> TRUE]]
  /\ IF context # 0
       THEN /\ SetB(beginClose(BM, c))
            /\ UNCHANGED <<mpc, exitCode>>
       ELSE /\ SetB([BM EXCEPT !.ipc[c] = "returned"])
            /\ mpc' = "exited"
            /\ exitCode' = 0
  /\ UNCHANGED <<svars, xvars, observed, attempts, waited, serving>>

\* The close() awaited by shutdown() ends. When context.close() resolved, the
\* fields are cleared and process.exit(0) is called; when it rejected, the
\* rejection of shutdown() is handled by nobody and ends the process.
ShutdownClosed(c, ok) ==
  /\ exitCode = -1
  /\ ipc[c] = "close" /\ op[c].name = "shutdown"
  /\ SetB(IF ok THEN [closed(BM, c) EXCEPT !.ipc[c] = "returned"]
          ELSE [BM EXCEPT !.ipc[c] = "threw"])
  /\ mpc' = "exited"
  /\ exitCode' = IF ok THEN 0 ELSE 1
  /\ UNCHANGED <<qvars, svars, xvars, op, observed, attempts, waited, serving>>

\* ------------------------------------------------- one exchange in detail
\* chatCompletionOnPage(page, message, model, isFirstMessage) step by step,
\* with what each page operation can answer. The humanize delays are timers
\* that cannot fail and are left out, except where the clock matters.

\* What the exchange returned or threw.
NoResult == [kind |-> "pending", value |-> ""]
Text(t) == [kind |-> "text", value |-> t]
Error(m) == [kind |-> "error", value |-> m]

\* No poll has been made.
NoObs == [polled |-> FALSE, stop |-> FALSE, loading |-> FALSE]

\* A page operation and how it ended.
Op(name, out) == [op |-> name, out |-> out]

\* The operations of a block that are executed: all of them up to the first
\* that throws.
Failing(ops) == {i \in 1..Len(ops) : ops[i].out \in {"throws", "timeout"}}

executed(ops) ==
  IF Failing(ops) = {} THEN ops
  ELSE SubSeq(ops, 1, CHOOSE i \in Failing(ops) : \A j \in Failing(ops) : i <= j)

\* ensureOnCopilot has returned: the next step of chatCompletionOnPage.
afterSurface(first) == IF first THEN "newChat" ELSE "send"

\* What the page answers to startNewChatOnPage.
NewChatOutcomes ==
  [button : {"present", "absent", "throws"}, click : {"ok", "throws"},
   goto : {"ok", "throws"}]

\* The try block of startNewChatOnPage: the button is clicked when it is
\* there, otherwise the page navigates to config.copilotUrl.
newChatBlock(o) ==
  executed(<<Op("$newChatButton", o.button)>> \o
           (IF o.button = "present" THEN <<Op("click", o.click)>>
            ELSE IF o.button = "absent" THEN <<Op("goto", o.goto)>>
            ELSE <<>>))

\* Defective variant of startNewChatOnPage: no catch block.
startNewChatOnPage_NoCatch(o) ==
  LET ops == newChatBlock(o) IN
  [ops |-> ops, threw |-> Failing(ops) # {}, caught |-> FALSE]

\* startNewChatOnPage: the catch block logs the error.
startNewChatOnPage(o) ==
  LET ops == newChatBlock(o) IN
  [ops |-> ops, threw |-> FALSE, caught |-> Failing(ops) # {}]

\* What the page answers to selectModelOnPage; inMore is
\* modelsInMoreSection.has(model).
SelectOutcomes ==
  [button : {"present", "absent", "throws"}, click : {"ok", "throws"},
   inMore : BOOLEAN, more : {"present", "absent", "throws"}, moreClick : {"ok", "throws"},
   option : {"appears", "timeout"}, optionClick : {"ok", "throws"},
   escape : {"ok", "throws"}]

\* The try block of selectModelOnPage.
selectBlock(o) ==
  executed(<<Op("$modelSelectorButton", o.button)>> \o
           (IF o.button # "present" THEN <<>>
            ELSE <<Op("click", o.click)>> \o
                 (IF ~o.inMore THEN <<>>
                  ELSE <<Op("$moreSection", o.more)>> \o
                       (IF o.more = "present" THEN <<Op("moreClick", o.moreClick)>>
                        ELSE <<>>)) \o
                 <<Op("waitForSelector", o.option), Op("optionClick", o.optionClick)>>))

\* selectModelOnPage: the catch block awaits page.keyboard.press('Escape'),
\* outside any try.
selectModelOnPage(o) ==
  LET ops == selectBlock(o) IN
  IF Failing(ops) = {}
    THEN [ops |-> ops, threw |-> FALSE, caught |-> FALSE]
    ELSE [ops |-> ops \o <<Op("Escape", o.escape)>>, threw |-> o.escape = "throws",
          caught |-> TRUE]

\* What the page answers to sendMessageOnPage up to the Enter key.
SendOutcomes ==
  [wait : {"appears", "timeout"}, input : {"present", "absent", "throws"},
   click : {"ok", "throws"}, clear : {"ok", "throws"}, type : {"ok", "throws"},
   enter : {"ok", "throws"}]

\* Defective variant of sendMessageOnPage: the input is not looked for, the
\* text is typed and submitted through the keyboard whatever the page holds.
sendMessageOnPage_Blind(o) ==
  LET ops == executed(<<Op("click", o.click), Op("clear", o.clear),
                        Op("type", o.type), Op("Enter", o.enter)>>) IN
  [ops |-> <<Op("waitForSelector", o.wait), Op("$chatInput", o.input)>> \o ops,
   result |-> IF Failing(ops) # {} THEN Error("PlaywrightError") ELSE NoResult]

\* sendMessageOnPage up to the call of waitForResponseOnPage.
sendMessageOnPage(o) ==
  LET ops == executed(<<Op("waitForSelector", o.wait), Op("$chatInput", o.input)>> \o
                      (IF o.input # "present" THEN <<>>
                       ELSE <<Op("click", o.click), Op("clear", o.clear),
                              Op("type", o.type), Op("Enter", o.enter)>>)) IN
  [ops |-> ops,
   result |-> IF Failing(ops) # {} THEN Error("PlaywrightError")
              ELSE IF o.input = "absent" THEN Error("Chat input not found")
              ELSE NoResult]

\* The texts elements carry: empty, blank, and two with letters.
Texts == {"", " ", " a ", "b"}

\* String.prototype.trim on those texts.
trim(t) == IF t = " " THEN "" ELSE IF t = " a " THEN "a" ELSE t

\* What page.$$(selector) and lastElement.textContent() answer: an error, or
\* the texts of the matching elements in document order.
RECURSIVE SeqsUpTo(_, _)
SeqsUpTo(S, n) ==
  IF n = 0 THEN {<<>>}
  ELSE LET shorter == SeqsUpTo(S, n - 1) IN
       shorter \cup {Append(q, x) : q \in shorter, x \in S}

Matches ==
  {[threw |-> FALSE, texts |-> q] : q \in SeqsUpTo(Texts, MaxElems)}
    \cup {[threw |-> TRUE, texts |-> <<>>]}

\* The text of the last matching element; "<none>" when the query threw or
\* matched nothing.
lastText(m) == IF m.threw \/ m.texts = <<>> THEN "<none>" ELSE m.texts[Len(m.texts)]

\* Strategy k of extractLastResponseFromPage (1 lastAssistantMessage,
\* 2 assistantMessage, 3 responseContainer, 4 the message-like fallback) on
\* the answer m: the text it returns, or NoResult when it goes on. The three
\* selectors test `text && text.trim()`, the fallback tests `text`.
strategyResult(k, m) ==
  LET text == lastText(m) IN
  IF text = "<none>" THEN NoResult
  ELSE IF k <= 3
    THEN (IF text # "" /\ trim(text) # "" THEN Text(trim(text)) ELSE NoResult)
    ELSE (IF text # "" THEN Text(trim(text)) ELSE NoResult)

\* The exchange throws.
fail(m) ==
  /\ xpc' = "failed"
  /\ xresult' = Error(m)

\* chatCompletionOnPage is called: ensureOnCopilot looks at page.url() and
\* navigates when the page is elsewhere.
XBegin(first, onCopilot) ==
  /\ xpc = "idle"
  /\ xfirst' = first
  /\ xops' = <<Op("url", IF onCopilot THEN "chat" ELSE "elsewhere")>>
  /\ xpc' = IF onCopilot THEN afterSurface(first) ELSE "surface"
  /\ UNCHANGED <<qvars, svars, bvars, mvars, xswallowed, xclock, xstarted, xsawAt, xobs,
                 xseen, xels, xresult>>

\* The page.goto of ensureOnCopilot ends.
XSurface(ok) ==
  /\ xpc = "surface"
  /\ xops' = <<Op("goto", IF ok THEN "ok" ELSE "throws")>>
  /\ IF ok THEN xpc' = afterSurface(xfirst) /\ UNCHANGED xresult
           ELSE fail("PlaywrightError")
  /\ UNCHANGED <<qvars, svars, bvars, mvars, xfirst, xswallowed, xclock, xstarted, xsawAt,
                 xobs, xseen, xels>>

\* startNewChatOnPage runs.
XNewChat ==
  /\ xpc = "newChat"
  /\ \E o \in NewChatOutcomes :
       LET r == startNewChatOnPage(o) IN
       /\ xops' = r.ops
       /\ xswallowed' = IF r.caught THEN xswallowed \cup {2} ELSE xswallowed
       /\ IF r.threw THEN fail("PlaywrightError")
                     ELSE xpc' = "selectModel" /\ UNCHANGED xresult
  /\ UNCHANGED <<qvars, svars, bvars, mvars, xfirst, xclock, xstarted, xsawAt, xobs,
                 xseen, xels>>

\* selectModelOnPage runs.
XSelectModel ==
  /\ xpc = "selectModel"
  /\ \E o \in SelectOutcomes :
       LET r == selectModelOnPage(o) IN
       /\ xops' = r.ops
       /\ xswallowed' = IF r.caught /\ ~r.threw THEN xswallowed \cup {3} ELSE xswallowed
       /\ IF r.threw THEN fail("PlaywrightError")
                     ELSE xpc' = "send" /\ UNCHANGED xresult
  /\ UNCHANGED <<qvars, svars, bvars, mvars, xfirst, xclock, xstarted, xsawAt, xobs,
                 xseen, xels>>

\* sendMessageOnPage runs up to the Enter key; waitForResponseOnPage reads
\* startTime and awaits the stop button.
XSend ==
  /\ xpc = "send"
  /\ \E o \in SendOutcomes :
       LET r == sendMessageOnPage(o) IN
       /\ xops' = r.ops
       /\ IF r.result = NoResult
            THEN xpc' = "stopWait" /\ UNCHANGED xresult
            ELSE xpc' = "failed" /\ xresult' = r.result
  /\ xclock' = 0
  /\ UNCHANGED <<qvars, svars, bvars, mvars, xfirst, xswallowed, xstarted, xsawAt, xobs,
                 xseen, xels>>

\* The waitForSelector of the stop button ends after w units: the button
\* appeared, or the wait timed out and the error is caught.
XStopWait(appeared, w) ==
  /\ xpc = "stopWait"
  /\ xpc' = "poll"
  /\ xclock' = w
  /\ xops' = <<Op("waitForSelector", IF appeared THEN "appears" ELSE "timeout")>>
  /\ UNCHANGED <<qvars, svars, bvars, mvars, xfirst, xswallowed, xstarted, xsawAt, xobs,
                 xseen, xels, xresult>>

\* Defective variant of the poll: the loading indicator is not looked at.
XPoll_StopOnly(d, stop, loading) ==
  /\ xpc = "poll"
  /\ xclock < responseTimeout
  /\ xstarted' = xclock
  /\ xclock' = xclock + d
  /\ xobs' = [polled |-> TRUE, stop |-> stop, loading |-> loading]
  /\ xops' = <<Op("$stopButton", IF stop THEN "present" ELSE "absent")>>
  /\ IF ~stop
       THEN xpc' = "extract" /\ xsawAt' = xclock'
       ELSE UNCHANGED <<xpc, xsawAt>>
  /\ UNCHANGED <<qvars, svars, bvars, mvars, xfirst, xswallowed, xseen, xels, xresult>>

\* One turn of the polling loop: the loop test passes, randomDelay(400, 800)
\* lasts d units, then the page is asked for the stop button and the loading
\* indicator. With both absent responseComplete is set and, after the
\* delays, extractLastResponseFromPage is called.
XPoll(d, stop, loading) ==
  /\ xpc = "poll"
  /\ xclock < responseTimeout
  /\ xstarted' = xclock
  /\ xclock' = xclock + d
  /\ xobs' = [polled |-> TRUE, stop |-> stop, loading |-> loading]
  /\ xops' = <<Op("$stopButton", IF stop THEN "present" ELSE "absent"),
               Op("$loadingIndicator", IF loading THEN "present" ELSE "absent")>>
  /\ IF ~stop /\ ~loading
       THEN xpc' = "extract" /\ xsawAt' = xclock'
       ELSE UNCHANGED <<xpc, xsawAt>>
  /\ UNCHANGED <<qvars, svars, bvars, mvars, xfirst, xswallowed, xseen, xels, xresult>>

\* One of the two page queries of a poll throws.
XPollThrew(d) ==
  /\ xpc = "poll"
  /\ xclock < responseTimeout
  /\ xstarted' = xclock
  /\ xclock' = xclock + d
  /\ xops' = <<Op("$stopButton", "throws")>>
  /\ fail("PlaywrightError")
  /\ UNCHANGED <<qvars, svars, bvars, mvars, xfirst, xswallowed, xsawAt, xobs, xseen, xels>>

\* The loop test fails on the clock: the wait throws.
XResponseTimeout ==
  /\ xpc = "poll"
  /\ xclock >= responseTimeout
  /\ fail("Response timeout - Copilot took too long to respond")
  /\ UNCHANGED <<qvars, svars, bvars, mvars, xfirst, xops, xswallowed, xclock, xstarted,
                 xsawAt, xobs, xseen, xels>>

\* extractLastResponseFromPage consults its next strategy and the page
\* answers m: the strategy returns a text, or the next one is tried, or,
\* after the last, the extraction throws.
XQuery(m) ==
  /\ xpc = "extract"
  /\ LET k == Len(xseen) + 1
         r == strategyResult(k, m) IN
       /\ xseen' = Append(xseen, [strategy |-> k, threw |-> m.threw, last |-> lastText(m)])
       /\ xels' = m.texts
       /\ IF r # NoResult THEN xpc' = "returned" /\ xresult' = r
          ELSE IF k = 4 THEN fail("Could not extract response from page")
          ELSE UNCHANGED <<xpc, xresult>>
  /\ xops' = <<>>
  /\ UNCHANGED <<qvars, svars, bvars, mvars, xfirst, xswallowed, xclock, xstarted, xsawAt,
                 xobs>>

\* The page the exchange runs on. The Enter key submits the message, and the
\* page is then to generate the answer: it begins at a time of its own and
\* ends later. The stop button is on the page exactly while it generates;
\* the loading indicator may be there until the answer is finished. The X
\* actions above leave xgen to the specification that uses them.
Submitted == xgen' = IF xpc' = "stopWait" THEN "awaited" ELSE xgen

GenerationBegins ==
  /\ xpc \in {"stopWait", "poll", "extract"}
  /\ xgen = "awaited"
  /\ xgen' = "running"
  /\ UNCHANGED <<qvars, svars, bvars, mvars, xpc, xfirst, xops, xswallowed, xclock,
                 xstarted, xsawAt, xobs, xseen, xels, xresult>>

GenerationEnds ==
  /\ xpc \in {"stopWait", "poll", "extract"}
  /\ xgen = "running"
  /\ xgen' = "finished"
  /\ UNCHANGED <<qvars, svars, bvars, mvars, xpc, xfirst, xops, xswallowed, xclock,
                 xstarted, xsawAt, xobs, xseen, xels, xresult>>

\* What waitForSelector(stopButton) and the two queries of a poll can answer
\* on that page.
ShowsStop(appeared) == appeared = (xgen = "running")

Shows(stop, loading) ==
  /\ stop = (xgen = "running")
  /\ loading => xgen # "finished"

\* ------------------------------------------------------- specifications
Init ==
  /\ queue = <<>>
  /\ processing = FALSE
  /\ timeoutId = [r \in Reqs |-> FALSE]
  /\ running = {}
  /\ result = [r \in Reqs |-> "pending"]
  /\ execCount = [r \in Reqs |-> 0]
  /\ settleCount = [r \in Reqs |-> 0]
  /\ accepted = <<>>
  /\ started = <<>>
  /\ delivered = <<>>
  /\ timerFired = [r \in Reqs |-> 0]
  /\ now = 0
  /\ sessions = <<>>
  /\ page = [i \in Ids |-> "none"]
  /\ nextId = 1
  /\ pc = [r \in Reqs |-> "idle"]
  /\ sid = [r \in Reqs |-> 0]
  /\ isFirstMessage = [r \in Reqs |-> FALSE]
  /\ createdNow = [r \in Reqs |-> 0]
  /\ target = [r \in Reqs |-> 0]
  /\ todo = [r \in Reqs |-> <<>>]
  /\ step = [r \in Reqs |-> 0]
  /\ http = [r \in Reqs |-> 0]
  /\ sweptIds = [r \in Reqs |-> {}]
  /\ body = [r \in Reqs |-> EmptyBody]
  /\ messageToSend = [r \in Reqs |-> <<>>]
  /\ errorCode = [r \in Reqs |-> ""]
  /\ response = [r \in Reqs |-> NoResponse]
  /\ context = 0
  /\ bpage = 0
  /\ initialized = FALSE
  /\ initializing = -1
  /\ currentHeadless = TRUE
  /\ ctx = [k \in CtxIds |-> [state |-> "none", headless |-> TRUE]]
  /\ nextCtx = 1
  /\ ipc = [c \in Calls |-> "idle"]
  /\ op = [c \in Calls |-> NoOp]
  /\ cx = [c \in Calls |-> 0]
  /\ joinedTo = [c \in Calls |-> -1]
  /\ mpc = "start"
  /\ observed = FALSE
  /\ attempts = 0
  /\ waited = 0
  /\ serving = FALSE
  /\ exitCode = -1
  /\ xpc = "idle"
  /\ xfirst = FALSE
  /\ xops = <<>>
  /\ xswallowed = {}
  /\ xclock = 0
  /\ xstarted = -1
  /\ xsawAt = -1
  /\ xobs = NoObs
  /\ xseen = <<>>
  /\ xels = <<>>
  /\ xresult = NoResult
  /\ xgen = "idle"

QNext ==
  \/ \E r \in Reqs : QEnqueue(r)
  \/ \E r \in Reqs : QTimerFire(r)
  \/ \E r \in Reqs : QComplete(r, TRUE)
  \/ \E r \in Reqs : QComplete(r, FALSE)
  \/ QClear

\* The RequestQueue driven by arbitrary callers.
SpecQueue == Init /\ [][QNext]_vars

\* The same, where every operation that was started comes to an end: the
\* promise returned by execute() settles.
SpecQueueFair ==
  SpecQueue /\ WF_vars(\E r \in Reqs : QComplete(r, TRUE) \/ QComplete(r, FALSE))

SNext ==
  \/ \E r \in Clients, id \in Presentable : SGetExisting(r, id)
  \/ \E r \in Clients, want \in Presentable : SCreate(r, want)
  \/ \E r \in Clients : CloseDone(r)
  \/ \E r \in Clients : NewPageDone(r)
  \/ \E r \in Clients : CreateFail(r)
  \/ \E r \in Clients : SRegister(r)
  \/ \E r \in Clients, id \in Presentable : SClose(r, id)
  \/ \E r \in Clients, id \in Presentable \ {0} : SCloseUnknown(r, id)
  \/ \E r \in Clients, ok \in BOOLEAN : SCloseDone(r, ok)
  \/ \E r \in Clients : SSweep(r)
  \/ \E r \in Clients : SSweepCloseDone(r)
  \/ \E r \in Clients : SReturn(r)
  \/ \E id \in Presentable \ {0} : STouch(id)
  \/ Tick

\* The SessionManager driven by arbitrary callers.
SpecSessions == Init /\ [][SNext]_vars

\* The request of the end-to-end scenarios: one user message, a model of the
\* list, no streaming, and the session_id given.
Chat(want) ==
  [messagesKind |-> "array", messages |-> <<Msg("user", "c1")>>, stream |-> FALSE,
   model |-> "copilot-auto", session_id |-> want]

Next ==
  \/ \E r \in Clients, want \in Ids : ArriveExisting(r, Chat(want))
  \/ \E r \in Clients : ArriveNew(r, Chat(0))
  \/ \E r \in Clients : CloseDone(r)
  \/ \E r \in Clients : NewPageDone(r)
  \/ \E r \in Clients : CreateFail(r)
  \/ \E r \in Clients : GotoDone(r)
  \/ \E r \in Clients : StepOk(r)
  \/ \E r \in Clients : StepFail(r)
  \/ \E r \in Clients : TimerFire(r)
  \/ Tick

\* The server: chat-completion handlers, the session manager, the queue and
\* the exchanges.
Spec == Init /\ [][Next]_vars

\* The request bodies clients post.
Bodies ==
  {[messagesKind |-> k.kind, messages |-> k.msgs, stream |-> st, model |-> m,
    session_id |-> w] :
     k \in MessagesInputs, st \in BOOLEAN, m \in ModelInputs, w \in Presentable}

\* One client posting its chat requests one after the other, each awaited.
Sequential(r) == \A p \in Clients \ {r} : pc[p] \in {"idle", "done"}

TNext ==
  \/ \E r \in Clients : Sequential(r) /\ pc[r] = "idle" /\ \E b \in Bodies : ChatRejected(r, b)
  \/ \E r \in Clients : Sequential(r) /\ pc[r] = "idle" /\ \E b \in Bodies : ArriveExisting(r, b)
  \/ \E r \in Clients : Sequential(r) /\ pc[r] = "idle" /\ \E b \in Bodies : ArriveNew(r, b)
  \/ \E r \in Clients : CloseDone(r)
  \/ \E r \in Clients : NewPageDone(r)
  \/ \E r \in Clients : CreateFail(r)
  \/ \E r \in Clients : GotoDone(r)
  \/ \E r \in Clients : StepOk(r)
  \/ \E r \in Clients : StepFail(r)

\* The server under the chat requests of one client, of every shape.
SpecTurns == Init /\ [][TNext]_vars

WNext ==
  \/ \E r \in Clients, want \in Ids : ArriveExisting(r, Chat(want))
  \/ \E r \in Clients : ArriveNew(r, Chat(0))
  \/ \E r \in Clients : CloseDone(r)
  \/ \E r \in Clients : NewPageDone(r)
  \/ \E r \in Clients : CreateFail(r)
  \/ \E r \in Clients : GotoDone(r)
  \/ \E r \in Clients : StepOk(r)
  \/ \E r \in Clients : StepFail(r)
  \/ \E r \in Clients : SweepTimer(r)
  \/ \E r \in Clients : SSweepCloseDone(r)
  \/ QuietTick

\* The server with the interval sweep running beside the handlers.
SpecSweep == Init /\ [][WNext]_vars

XNext ==
  \/ \E first \in BOOLEAN, onCopilot \in BOOLEAN : XBegin(first, onCopilot) /\ UNCHANGED xgen
  \/ \E ok \in BOOLEAN : XSurface(ok) /\ UNCHANGED xgen
  \/ XNewChat /\ UNCHANGED xgen
  \/ XSelectModel /\ UNCHANGED xgen
  \/ XSend /\ UNCHANGED xgen
  \/ \E appeared \in BOOLEAN, w \in 0..1 : XStopWait(appeared, w) /\ UNCHANGED xgen
  \/ \E d \in 1..MaxPollDelay, stop \in BOOLEAN, loading \in BOOLEAN :
       XPoll(d, stop, loading) /\ UNCHANGED xgen
  \/ \E d \in 1..MaxPollDelay : XPollThrew(d) /\ UNCHANGED xgen
  \/ XResponseTimeout /\ UNCHANGED xgen
  \/ \E m \in Matches : XQuery(m) /\ UNCHANGED xgen

\* One exchange on a page, with every answer of the page.
SpecExchange == Init /\ [][XNext]_vars

GNext ==
  \/ \E first \in BOOLEAN, onCopilot \in BOOLEAN : XBegin(first, onCopilot) /\ UNCHANGED xgen
  \/ \E ok \in BOOLEAN : XSurface(ok) /\ UNCHANGED xgen
  \/ XNewChat /\ UNCHANGED xgen
  \/ XSelectModel /\ UNCHANGED xgen
  \/ XSend /\ Submitted
  \/ GenerationBegins
  \/ GenerationEnds
  \/ \E appeared \in BOOLEAN, w \in 0..1 :
       ShowsStop(appeared) /\ XStopWait(appeared, w) /\ UNCHANGED xgen
  \/ \E d \in 1..MaxPollDelay, stop \in BOOLEAN, loading \in BOOLEAN :
       Shows(stop, loading) /\ XPoll(d, stop, loading) /\ UNCHANGED xgen
  \/ \E d \in 1..MaxPollDelay : XPollThrew(d) /\ UNCHANGED xgen
  \/ XResponseTimeout /\ UNCHANGED xgen
  \/ \E m \in Matches : XQuery(m) /\ UNCHANGED xgen

\* One exchange on a page that shows the stop button exactly while it
\* generates the answer, and begins to generate when it pleases.
SpecGeneration == Init /\ [][GNext]_vars

BNext ==
  \/ \E c \in Calls \ {Main}, h \in BOOLEAN : BInitialize(c, h)
  \/ \E c \in Calls \ {Main} : BClose(c)
  \/ \E c \in Calls : CloseResolved(c)
  \/ \E c \in Calls : CloseThrew(c)
  \/ \E c \in Calls, hasPage \in BOOLEAN : LaunchResolved(c, hasPage)
  \/ \E c \in Calls : NewPageResolved(c)
  \/ \E c \in Calls : FrontDone(c)
  \/ \E c \in Calls : InitThrew(c)

\* The BrowserManager driven by concurrent callers of initialize and close.
SpecBrowser == Init /\ [][BNext]_vars

\* The process runs.
Alive == exitCode = -1

PNext ==
  \/ MStart
  \/ MFatal
  \/ \E configHeadless \in BOOLEAN : MGetPage(configHeadless)
  \/ \E authenticated \in BOOLEAN : MCheckDone(authenticated)
  \/ MReopen
  \/ MLoginGoto
  \/ \E authenticated \in BOOLEAN : MLook(authenticated)
  \/ \E d \in 1..loginTimeoutMs : MSleepDone(d)
  \/ MLoginDone
  \/ Alive /\ CloseResolved(Main)
  \/ Alive /\ CloseThrew(Main)
  \/ \E hasPage \in BOOLEAN : Alive /\ LaunchResolved(Main, hasPage)
  \/ Alive /\ NewPageResolved(Main)
  \/ Alive /\ FrontDone(Main)
  \/ Alive /\ InitThrew(Main)
  \/ \E r \in Reqs : Alive /\ serving /\ QEnqueue(r)
  \/ \E r \in Reqs : Alive /\ QTimerFire(r)
  \/ \E r \in Reqs, ok \in BOOLEAN : Alive /\ QComplete(r, ok)
  \/ \E c \in Calls \ {Main} : Shutdown(c)
  \/ \E c \in Calls \ {Main}, ok \in BOOLEAN : ShutdownClosed(c, ok)

\* The process from its start to its exit: main and ensureLoggedIn, then the
\* server with its queue under arbitrary enqueue callers, and the signals.
SpecProcess == Init /\ [][PNext]_vars

\* The same, where the look at the page and the sleep of
\* waitForLoginCompletion always come to an end.
SpecProcessFair ==
  /\ SpecProcess
  /\ WF_vars(\E authenticated \in BOOLEAN : MLook(authenticated))
  /\ WF_vars(\E d \in 1..loginTimeoutMs : MSleepDone(d))

\* ------------------------------------------------------------------ claims
\* C1: at most one enqueued operation is executing at any instant, and the
\* queue is marked busy whenever one is.
C1_AtMostOneExecuting ==
  /\ Cardinality(running) <= 1
  /\ running # {} => processing

\* An operation is executing while others wait, after an earlier one completed.
C1_Witness == Len(delivered) >= 1 /\ running # {} /\ queue # <<>>

\* C2: operations start in the order their enqueue calls were accepted: every
\* started item was accepted before every item still waiting, the start order
\* follows the acceptance order, and outcomes are delivered in start order.
C2_FifoStartOrder ==
  /\ \A i, j \in 1..Len(started) :
       i < j => Pos(accepted, started[i]) < Pos(accepted, started[j])
  /\ \A r \in Range(started), w \in Range(queue) :
       Pos(accepted, r) < Pos(accepted, w)
  /\ Len(delivered) <= Len(started)
  /\ \A i \in 1..Len(delivered) : delivered[i] = started[i]

\* The second item started while two later items wait.
C2_Witness == Len(started) >= 2 /\ Len(queue) >= 2

\* Requests whose task is driving a browser page: createSession awaiting a
\* page.close(), context.newPage() or page.goto(), or an exchange in progress.
AutomationTasks ==
  {r \in Reqs : pc[r] \in {"cleanup", "evict", "newPage", "goto"}}
    \cup {r \in Reqs : step[r] \in 1..6}

\* C3: at any instant at most one task that drives a browser page is in
\* progress (exchange steps, session-creation page open and navigation,
\* page close).
C3_OneAutomationTask == Cardinality(AutomationTasks) <= 1

\* C4: every exchange in progress is the running queue item, and at most one
\* exchange is between its first and its last UI step at any instant.
C4_ExchangesSerialized ==
  /\ \A r \in Reqs : step[r] \in 1..6 <=> r \in running
  /\ \A r, o \in Reqs : (step[r] \in 1..6 /\ step[o] \in 1..6) => r = o

\* An exchange is in the middle of its steps while the exchange of a request
\* on another session waits in the queue.
C4_Witness ==
  \E r, o \in Reqs :
    /\ step[o] = 3
    /\ r \in Range(queue)
    /\ sid[r] # 0 /\ sid[r] # sid[o]

\* C5: the registry never holds more sessions than the configured maximum.
C5_SessionsWithinMax == Len(sessions) <= maxSessions

\* C6: enqueue called while the waiting list holds maxQueueSize items fails
\* at once with the queue-full error, leaves list, timers and history alone,
\* and the rejected operation is never executed.
C6_QueueFullRejects ==
  /\ [][\A r \in Reqs :
          (IsNew(r) /\ ~(IsNew(r))' /\ Len(queue) >= maxQueueSize)
            => /\ result'[r] = "QueueFull"
               /\ queue' = queue
               /\ timeoutId' = timeoutId
               /\ accepted' = accepted
               /\ execCount' = execCount]_vars
  /\ [](\A r \in Reqs :
          result[r] = "QueueFull"
            => execCount[r] = 0 /\ ~timeoutId[r] /\ r \notin Range(queue) /\ r \notin running)

\* An enqueue was rejected, and the queue went on to run what waited.
C6_Witness ==
  \E r \in Reqs : result[r] = "QueueFull" /\ Len(delivered) >= 2

\* C7: when the timer of a waiting item fires, the item leaves the waiting
\* list and fails with the queue-timeout error; an item that failed so is
\* never executed.
C7_TimeoutRemoves ==
  /\ [][\A r \in Reqs :
          (timerFired'[r] > timerFired[r] /\ r \in Range(queue))
            => r \notin Range(queue') /\ result'[r] = "QueueTimeout"]_vars
  /\ [](\A r \in Reqs :
          result[r] = "QueueTimeout"
            => execCount[r] = 0 /\ r \notin Range(queue) /\ r \notin running)

\* An item timed out and an item accepted after it has been started.
C7_Witness ==
  \E r, x \in Reqs :
    /\ result[r] = "QueueTimeout"
    /\ x \in Range(started)
    /\ Pos(accepted, r) < Pos(accepted, x)

\* C8: an item the worker dequeued has its timer disarmed, its timeout
\* callback never ran, it never fails with the queue-timeout error, and it is
\* settled exactly once, by the success or failure of its own operation.
C8_TimerOrWorker ==
  \A r \in Reqs :
    execCount[r] > 0 =>
      /\ ~timeoutId[r]
      /\ timerFired[r] = 0
      /\ r \in running => settleCount[r] = 0 /\ result[r] = "pending"
      /\ r \notin running => settleCount[r] = 1 /\ result[r] \in {"ok", "OpError"}

\* An item that had to wait (its timer armed) was dequeued and has completed.
C8_Witness ==
  \E r \in Reqs :
    /\ Len(started) >= 2 /\ started[2] = r
    /\ result[r] \in {"ok", "OpError"}

\* C9: a clear() that finds items waiting fails each of them with the
\* shutdown error and empties the list without touching the running item;
\* an item failed so is never executed.
C9_ClearRejectsWaiting ==
  /\ [][(\E r \in Reqs : result[r] = "pending" /\ result'[r] = "QueueShutdown")
          => /\ queue' = <<>>
             /\ \A w \in Range(queue) : result'[w] = "QueueShutdown" /\ ~timeoutId'[w]
             /\ running' = running
             /\ processing' = processing
             /\ \A x \in running : result'[x] = result[x] /\ settleCount'[x] = settleCount[x]]_vars
  /\ [](\A r \in Reqs :
          result[r] = "QueueShutdown"
            => execCount[r] = 0 /\ r \notin Range(queue) /\ r \notin running)

\* Items were failed by clear() while an item was running, and that item has
\* since completed with its own outcome.
C9_Witness ==
  \E r, x \in Reqs :
    /\ result[r] = "QueueShutdown"
    /\ result[x] \in {"ok", "OpError"}
    /\ Pos(accepted, x) < Pos(accepted, r)
    /\ Pos(delivered, x) = Len(delivered)
    /\ Len(started) = Len(delivered)

\* C10: an accepted operation is executed at most once; a failed operation
\* has been executed once, is reported and is neither waiting nor running again.
C10_NoRetry ==
  \A r \in Reqs :
    /\ execCount[r] <= 1
    /\ result[r] = "OpError"
         => execCount[r] = 1 /\ settleCount[r] = 1 /\ r \notin Range(queue) /\ r \notin running

\* An operation failed and the queue has drained after it.
C10_Witness ==
  \E r \in Reqs :
    /\ result[r] = "OpError"
    /\ Len(delivered) > Pos(delivered, r)
    /\ running = {} /\ queue = <<>>

\* C11: a creation that finds the registry at capacity after its idle sweep
\* selects as victim the registered session with the smallest last-activity,
\* the first in registry order among equals; the eviction removes exactly
\* that entry and the creation goes on to open the page; a creation whose
\* sweep freed a slot (or that found room) evicts nothing; from the eviction
\* to the registration the creation removes no other session.
C11_EvictsOldest ==
  [][\A r \in Reqs :
       /\ (pc[r] # "evict" /\ pc'[r] = "evict")
            => /\ Len(sessions') >= maxSessions
               /\ \E i \in 1..Len(sessions') :
                    /\ sessions'[i].id = target'[r]
                    /\ \A j \in 1..Len(sessions') :
                         /\ sessions'[j].lastActivityAt >= sessions'[i].lastActivityAt
                         /\ j < i => sessions'[j].lastActivityAt > sessions'[i].lastActivityAt
       /\ (pc[r] = "evict" /\ pc'[r] # "evict")
            => /\ pc'[r] = "newPage"
               /\ \E i \in 1..Len(sessions) :
                    /\ sessions[i].id = target[r]
                    /\ sessions' = SubSeq(sessions, 1, i - 1) \o SubSeq(sessions, i + 1, Len(sessions))
       /\ (pc[r] \in {"idle", "cleanup"} /\ pc'[r] = "newPage")
            => Len(sessions') < maxSessions
       /\ (pc[r] \in {"newPage", "goto"})
            => \A i \in 1..Len(sessions) : sessions[i].id \in ids(sessions')]_vars

\* A creation found the registry full of sessions equally old, none of them
\* idle for too long, evicted the first and registered the new session.
C11_Witness ==
  \E r \in Reqs :
    /\ pc[r] = "done" /\ sid[r] = maxSessions + 1
    /\ sweptIds[r] = {}
    /\ page[1] = "closed"
    /\ ids(sessions) = 2..(maxSessions + 1)
    /\ \E i \in 1..Len(sessions) : sessions[i].id = 2 /\ sessions[i].lastActivityAt = 0

\* C12: getOrCreateSession called with the id of a registered session returns
\* at once the session of that id, stamped with the current time; the
\* registry keeps its entries and their order, the message count of that
\* session and every other session are as before, no identifier is minted
\* and no page is opened or closed. A call that starts a creation was not
\* given a registered id.
C12_GetExistingBumps ==
  [][\A r \in Reqs :
       /\ (pc[r] = "idle" /\ pc'[r] = "done" /\ sid'[r] # 0)
            => /\ hasSession(sessions, sid'[r])
               /\ Len(sessions') = Len(sessions)
               /\ \A i \in 1..Len(sessions) :
                    IF sessions[i].id = sid'[r]
                      THEN sessions'[i] = [id |-> sid'[r], lastActivityAt |-> now,
                                           messageCount |-> sessions[i].messageCount]
                      ELSE sessions'[i] = sessions[i]
               /\ nextId' = nextId
               /\ page' = page
       /\ (pc[r] = "idle" /\ pc'[r] \in {"cleanup", "evict", "newPage"})
            => ~hasSession(sessions, body'[r].session_id)]_vars

\* A session that was touched earlier is returned by getOrCreateSession,
\* stamped anew, while another session with an older stamp is registered.
C12_Witness ==
  \E r \in Reqs, i, j \in 1..Len(sessions) :
    /\ pc[r] = "done" /\ sid[r] = sessions[i].id
    /\ sessions[i].lastActivityAt = now /\ now > 0
    /\ sessions[i].messageCount = 1
    /\ sessions[j].lastActivityAt < now

\* C13: a getOrCreateSession call that finds no session under the id it was
\* given creates one: the identifier it mints was never issued before and is
\* not the requested one, and the session enters the registry at the end,
\* under that identifier, with message count zero, the other entries being
\* as they were. A session is returned without a creation only to a call
\* that named it, so a call without id always creates. No identifier is
\* registered twice.
C13_CreatesFresh ==
  /\ [][\A r \in Reqs :
          /\ (pc[r] = "newPage" /\ pc'[r] = "goto")
               => /\ page[sid'[r]] = "none"
                  /\ ~hasSession(sessions, sid'[r])
                  /\ sid'[r] # body[r].session_id
          /\ (pc[r] = "goto" /\ pc'[r] = "done" /\ http'[r] # 500)
               => /\ sid'[r] = sid[r] /\ sid[r] # body[r].session_id
                  /\ Len(sessions') = Len(sessions) + 1
                  /\ SubSeq(sessions', 1, Len(sessions)) = sessions
                  /\ sessions'[Len(sessions')].id = sid[r]
                  /\ sessions'[Len(sessions')].messageCount = 0
          /\ (pc[r] = "idle" /\ pc'[r] = "done" /\ sid'[r] # 0)
               => body'[r].session_id = sid'[r]]_vars
  /\ [](\A i, j \in 1..Len(sessions) : sessions[i].id = sessions[j].id => i = j)

\* A call that named the identifier of a session closed earlier got a new
\* session under another identifier, with message count zero.
C13_Witness ==
  \E r \in Reqs :
    /\ pc[r] = "done" /\ sid[r] # 0
    /\ body[r].session_id \in Ids /\ body[r].session_id # sid[r]
    /\ page[body[r].session_id] \in {"closed", "leaked"}
    /\ hasSession(sessions, sid[r]) /\ getSession(sessions, sid[r]).messageCount = 0

\* The sessions idle for longer than the threshold at time t.
IdleTooLong(ss, t) == {ss[i].id : i \in {k \in 1..Len(ss) : t - ss[k].lastActivityAt > timeoutMs}}

\* The identifiers stats() lists.
StatsIds(ss, t) == {getStats(ss, t).sessions[i].id : i \in 1..getStats(ss, t).activeSessions}

\* C14: an idle sweep (the interval's, or the one a creation at capacity
\* runs) collects exactly the sessions idle for longer than the threshold at
\* that moment; when it ends none of them is in the registry or in stats();
\* while it runs no session outside that collection is removed, so a session
\* stamped within the threshold before the sweep survives it.
C14_SweepRemovesIdle ==
  [][\A r \in Reqs :
       /\ (pc[r] = "idle" /\ pc'[r] \in {"sweep", "cleanup"})
            => sweptIds'[r] = IdleTooLong(sessions, now) /\ sweptIds'[r] # {}
       /\ (pc[r] = "idle" /\ pc'[r] = "evict")
            => IdleTooLong(sessions, now) = {}
       /\ (pc[r] = "idle" /\ pc'[r] = "done" /\ sid'[r] = 0)
            => IdleTooLong(sessions, now) = {} /\ sessions' = sessions
       /\ (pc[r] \in {"sweep", "cleanup"})
            => \A i \in 1..Len(sessions) :
                 sessions[i].id \notin sweptIds[r] => sessions[i].id \in ids(sessions')
       /\ (pc[r] \in {"sweep", "cleanup"} /\ pc'[r] \notin {"sweep", "cleanup"})
            => /\ sweptIds[r] \cap ids(sessions') = {}
               /\ sweptIds[r] \cap StatsIds(sessions', now') = {}]_vars

\* The interval's sweep has closed a session and left one that was idle for
\* exactly the threshold.
C14_Witness ==
  \E r \in Reqs :
    /\ pc[r] = "done" /\ sid[r] = 0 /\ sweptIds[r] # {}
    /\ \E i \in 1..Len(sessions) : now - sessions[i].lastActivityAt = timeoutMs
    /\ \A id \in sweptIds[r] : page[id] = "closed"

\* C15: closeSession on a registered id ends with the id absent from the
\* registry, the other entries kept, and DELETE answers 200, whether
\* page.close() resolved or threw; closeSession on an id that is not
\* registered returns at once, DELETE answers 404 session_not_found, and
\* registry, pages and identifiers are untouched. An id whose session was
\* closed is never registered again, so a repeated DELETE finds it unknown.
C15_CloseRemoves ==
  /\ [][\A r \in Reqs :
          /\ (pc[r] = "idle" /\ pc'[r] = "close")
               => hasSession(sessions, target'[r]) /\ sessions' = sessions
          /\ (pc[r] = "close" /\ pc'[r] # "close")
               => /\ pc'[r] = "deleted" /\ http'[r] = 200
                  /\ ~hasSession(sessions', target[r])
                  /\ \A i \in 1..Len(sessions) :
                       sessions[i].id # target[r] => sessions[i] \in Range(sessions')
                  /\ Range(sessions') \subseteq Range(sessions)
          /\ (pc[r] = "idle" /\ pc'[r] = "notFound")
               => /\ ~hasSession(sessions, target'[r])
                  /\ http'[r] = 404 /\ errorCode'[r] = "session_not_found"
                  /\ sessions' = sessions /\ page' = page /\ nextId' = nextId]_vars
  /\ [](\A id \in Ids : page[id] \in {"closed", "leaked"} => ~hasSession(sessions, id))
  /\ [](\A r \in Reqs : pc[r] = "deleted" => ~hasSession(sessions, target[r]))

\* A DELETE closed a session whose page.close() threw, and a later DELETE of
\* the same id was answered 404 while another session stays registered.
C15_Witness ==
  \E r \in Reqs :
    /\ pc[r] = "notFound" /\ http[r] = 404
    /\ target[r] \in Ids /\ page[target[r]] = "leaked"
    /\ sessions # <<>>

\* C16: touchSession on a registered id stamps that session with the current
\* time and adds exactly one to its message count, leaving the registry's
\* other entries and its order as they are; on an unknown id it returns the
\* registry unchanged. From one state to the next the message count of a
\* registered session never decreases, and it changes only by such a touch.
C16_TouchCounts ==
  /\ [](\A id \in Ids \cup {FakeId} :
          LET after == touchSession(sessions, id, now) IN
          IF hasSession(sessions, id)
            THEN /\ Len(after) = Len(sessions)
                 /\ \A i \in 1..Len(sessions) :
                      IF sessions[i].id = id
                        THEN after[i] = [id |-> id, lastActivityAt |-> now,
                                         messageCount |-> sessions[i].messageCount + 1]
                        ELSE after[i] = sessions[i]
            ELSE after = sessions)
  /\ [][\A i \in 1..Len(sessions), j \in 1..Len(sessions') :
          sessions[i].id = sessions'[j].id
            => /\ sessions'[j].messageCount >= sessions[i].messageCount
               /\ sessions'[j].messageCount # sessions[i].messageCount
                    => /\ sessions'[j].messageCount = sessions[i].messageCount + 1
                       /\ sessions'[j].lastActivityAt = now
                       /\ Len(sessions') = Len(sessions) /\ i = j
                       /\ \A k \in 1..Len(sessions) : k # i => sessions'[k] = sessions[k]]_vars

\* A session has been touched up to the largest count at a later time than
\* its creation, next to a session that was never touched.
C16_Witness ==
  \E i, j \in 1..Len(sessions) :
    /\ sessions[i].messageCount = MaxMsgs /\ sessions[i].lastActivityAt = now /\ now > 0
    /\ sessions[j].messageCount = 0 /\ sessions[j].lastActivityAt < now

\* C17: an exchange run with isFirstMessage = true goes through
\* EnsureOnSurface, NewConversation, SelectModel, SubmitMessage,
\* AwaitCompletion, ExtractResponse in that order: the message is submitted
\* only after the conversation reset and then the model selection were
\* attempted, and the reset, failing or not, is always followed by the
\* selection. An exchange with isFirstMessage = false goes from the surface
\* check to the submission.
C17_StepOrder ==
  [][\A r \in Reqs :
       step'[r] # step[r] =>
         /\ step'[r] = 1 => step[r] = 0
         /\ step'[r] = 2 => step[r] = 1 /\ isFirstMessage[r]
         /\ step'[r] = 3 => step[r] = 2
         /\ step'[r] = 4 => step[r] = (IF isFirstMessage[r] THEN 3 ELSE 1)
         /\ step'[r] = 5 => step[r] = 4
         /\ step'[r] = 6 => step[r] = 5
         /\ step[r] = 2 => step'[r] = 3
         /\ (step[r] = 1 /\ isFirstMessage[r]) => step'[r] \in {2, 7}]_vars

\* A first-message exchange is submitting its message.
C17_Witness ==
  \E r \in Reqs : r \in running /\ isFirstMessage[r] /\ step[r] = 4

\* A 200 response carrying that session id was sent: the session has
\* completed an exchange.
Completed(id) == \E x \in Reqs : http[x] = 200 /\ response[x].session_id = id

\* C18: a valid chat request that names a registered session which has
\* already completed an exchange runs with isFirstMessage = false on that
\* session: its exchange takes neither the conversation-reset step nor the
\* model-selection step, and what the handler forwards is the content of the
\* most recent user message of the request and nothing else (a request with no
\* user message is answered 400 and forwards nothing).
C18_ReuseForwardsLast ==
  [][\A r \in Reqs :
       /\ ( /\ pc[r] = "idle" /\ pc'[r] # "idle"
            /\ validate(body'[r]) = ""
            /\ hasSession(sessions, body'[r].session_id)
            /\ Completed(body'[r].session_id) )
          => LET ms == body'[r].messages IN
             /\ ~isFirstMessage'[r]
             /\ sid'[r] = body'[r].session_id
             /\ IF \E i \in 1..Len(ms) : ms[i].role = "user"
                  THEN /\ r \in running' /\ step'[r] = 1
                       /\ \E i \in 1..Len(ms) :
                            /\ ms[i].role = "user"
                            /\ \A j \in (i + 1)..Len(ms) : ms[j].role # "user"
                            /\ messageToSend'[r] = <<[prefix |-> "", content |-> ms[i].content]>>
                  ELSE /\ http'[r] = 400 /\ errorCode'[r] = "no_user_message"
                       /\ r \notin Range(accepted') /\ messageToSend'[r] = <<>>
       /\ (step'[r] # step[r] /\ ~isFirstMessage[r] /\ step[r] # 0) => step'[r] \notin {2, 3}]_vars

\* The second turn of a conversation: a request with an earlier user message,
\* the assistant's answer and a new user message is at the submission step
\* with the new message alone.
C18_Witness ==
  \E r \in Reqs :
    /\ r \in running /\ step[r] = 4 /\ ~isFirstMessage[r]
    /\ Completed(sid[r])
    /\ body[r].messages = <<Msg("user", "c1"), Msg("assistant", "c2"), Msg("user", "c3")>>
    /\ messageToSend[r] = <<[prefix |-> "", content |-> "c3"]>>

\* A request whose messages pass the first check of the handler.
MessagesGiven(b) == b.messagesKind = "array" /\ Len(b.messages) > 0

\* C19: a chat request whose messages field is missing or an empty array is
\* answered 400 invalid_messages; otherwise one with stream true is answered
\* 400 streaming_not_supported; otherwise one whose model is non-empty and,
\* lower-cased and trimmed, is not a name of the alias table is answered
\* 400 model_not_found.
C19_ValidationErrors ==
  [][\A r \in Reqs :
       (pc[r] = "idle" /\ pc'[r] # "idle") =>
         LET b == body'[r] IN
         /\ ~MessagesGiven(b)
              => http'[r] = 400 /\ errorCode'[r] = "invalid_messages"
         /\ (MessagesGiven(b) /\ b.stream)
              => http'[r] = 400 /\ errorCode'[r] = "streaming_not_supported"
         /\ (MessagesGiven(b) /\ ~b.stream /\ b.model # ""
               /\ normalized(b.model) \notin DOMAIN modelMapping)
              => http'[r] = 400 /\ errorCode'[r] = "model_not_found"]_vars

\* The identifiers that have appeared anywhere: on a page, in the registry,
\* in a handler, in a request or in a response.
SeenIds ==
  {id \in Ids : page[id] # "none"}
    \cup {sessions[i].id : i \in 1..Len(sessions)}
    \cup {sid[x] : x \in Reqs} \cup {body[x].session_id : x \in Reqs}
    \cup {response[x].session_id : x \in Reqs}

\* C20: a valid chat request without session_id (or naming a session that is
\* not registered) has a session created for it under an identifier minted
\* then, which has appeared nowhere before and is not the requested one; the
\* handler holds that session until it answers; when the exchange on it
\* succeeds the answer is 200 with that identifier as session_id and the role
\* assistant.
C20_FreshSessionId ==
  [][\A r \in Reqs :
       /\ (pc[r] = "idle" /\ pc'[r] # "idle" /\ validate(body'[r]) = ""
             /\ ~hasSession(sessions, body'[r].session_id))
            => pc'[r] \in {"cleanup", "evict", "newPage"} /\ sid'[r] = 0
       /\ (pc[r] = "newPage" /\ pc'[r] = "goto")
            => sid'[r] \in Ids \ SeenIds /\ sid'[r] # body[r].session_id
       /\ (pc[r] \in {"goto", "queued"} /\ http'[r] # 500)
            => sid'[r] = sid[r] /\ body'[r] = body[r]
       /\ (http[r] = 0 /\ http'[r] = 200)
            => /\ pc[r] = "queued" /\ r \in running /\ step[r] = 6
               /\ response'[r] = [session_id |-> sid[r], role |-> "assistant"]
               /\ sid[r] \in Ids]_vars

\* The request of the scenario, without session_id, was answered 200 with
\* the identifier of the session created for it.
C20_Witness ==
  \E r \in Reqs :
    /\ http[r] = 200 /\ body[r] = Chat(0)
    /\ sid[r] \in Ids /\ hasSession(sessions, sid[r])
    /\ response[r] = [session_id |-> sid[r], role |-> "assistant"]

\* No signal has been received.
NoSignal == \A c \in Calls : op[c].name # "shutdown"

\* C21: when ensureLoggedIn returns true (main goes on to app.listen), the
\* authenticated classification of the page has been observed and, no signal
\* having started a shutdown, the manager is initialized in headless mode on
\* a live headless context with its page, the only context there is, no
\* launch in flight; after an interactive login the headed context has been
\* closed and the headless one was launched after it.
C21_LoginLeavesHeadless ==
  [][(mpc # "serving" /\ mpc' = "serving") =>
       /\ observed'
       /\ NoSignal =>
            /\ initialized' /\ currentHeadless'
            /\ context' \in CtxIds /\ bpage' = context'
            /\ ctx'[context'] = [state |-> "live", headless |-> TRUE]
            /\ LiveContexts(ctx') = {context'} /\ Launching(ctx') = {}
            /\ attempts >= 1 =>
                 \E k \in CtxIds :
                   k < context' /\ ctx'[k] = [state |-> "closed", headless |-> FALSE]]_vars

\* ensureLoggedIn has returned true after an interactive login.
C21_Witness ==
  /\ mpc = "serving" /\ attempts = 1 /\ NoSignal
  /\ initialized /\ currentHeadless /\ context # 0 /\ ctx[context].state = "live"

\* C22: performLogin is called at most once; when the login timeout elapses
\* without the authenticated classification, ensureLoggedIn returns false
\* and main calls process.exit(1) without having called app.listen; nothing
\* is accepted by the queue before app.listen and nothing happens after the
\* exit; and the wait for the login always ends, with the classification
\* observed or with the exit.
C22_TimeoutAbortsStartup ==
  /\ [][/\ attempts' <= 1
        /\ (mpc = "login.sleep" /\ mpc' = "exited" /\ NoSignal)
             => /\ exitCode' = 1 /\ ~serving' /\ ~observed'
                /\ attempts' = 1 /\ waited' >= loginTimeoutMs
        /\ accepted' # accepted => serving
        /\ mpc # "exited"]_vars
  /\ (mpc \in {"login.look", "login.sleep"}) ~> (mpc \in {"done.close", "exited"})

\* The login timed out: the process has exited with code 1 and never served.
C22_Witness ==
  /\ mpc = "exited" /\ exitCode = 1 /\ NoSignal
  /\ attempts = 1 /\ waited = loginTimeoutMs /\ ~observed /\ ~serving

\* Call x is running doInitialize: its launch, or the page set-up after it,
\* is in flight.
Initializing(x) ==
  op[x].name = "initialize" /\ ipc[x] \in {"launch", "newPage", "front"}

\* C23: at most one browser launch is in flight at any time, and a call of
\* initialize that arrives while another call is inside initialize awaits
\* that initialization and starts no launch of its own.
C23_InitializeCoalesced ==
  /\ [](Cardinality(Launching(ctx)) <= 1)
  /\ [][\A c \in Calls :
          (ipc[c] = "idle" /\ ipc'[c] # "idle" /\ op'[c].name = "initialize"
             /\ \E x \in Calls \ {c} : Initializing(x))
            => ipc'[c] = "joined"]_vars

\* Call c returns from initialize in this step.
InitializeReturns(c) ==
  ipc[c] # "returned" /\ ipc'[c] = "returned" /\ op'[c].name = "initialize"

\* C24: a launch is started only when no browser context exists any more (the
\* old one is fully closed first), at most one browser context exists at any
\* time, and when initialize returns the current mode is the requested one.
C24_ModeSwitchClosesFirst ==
  /\ [](Cardinality(LiveContexts(ctx)) <= 1)
  /\ [][(Launching(ctx') \ Launching(ctx) # {}) => LiveContexts(ctx') = {}]_vars
  /\ [][\A c \in Calls :
          InitializeReturns(c)
            => initialized' /\ currentHeadless' = op'[c].headless]_vars

\* Call c is the signal handler and shutdown() begins in this step.
ShutdownBegins(c) == op[c].name # "shutdown" /\ op'[c].name = "shutdown"

\* C25: in the step in which shutdown() begins, before its close() of the
\* browser context is under way, every waiting item has its timer cleared
\* and is rejected with the shutdown error and the waiting list is empty; the
\* context is not closed by shutdown() in that step but later; and an item
\* rejected with the shutdown error never starts executing: it has not run,
\* is not running, is not in the waiting list and its outcome stays.
C25_ShutdownDrainsFirst ==
  /\ [][\A c \in Calls :
          ShutdownBegins(c) =>
            /\ queue' = <<>>
            /\ \A r \in Range(queue) :
                 result'[r] = "QueueShutdown" /\ ~timeoutId'[r] /\ execCount'[r] = 0
            /\ \A k \in CtxIds : ctx'[k].state = "closed" => ctx[k].state = "closed"]_vars
  /\ [](\A r \in Reqs :
          result[r] = "QueueShutdown" =>
            execCount[r] = 0 /\ r \notin running /\ r \notin Range(queue))
  /\ [][\A r \in Reqs :
          result[r] = "QueueShutdown" => result'[r] = "QueueShutdown"]_vars

\* shutdown() has rejected a waiting item and awaits the close of the live
\* context while the item that was executing is still running.
C25_Witness ==
  /\ exitCode = -1
  /\ \E c \in Calls : op[c].name = "shutdown" /\ ipc[c] = "close"
                       /\ ctx[cx[c]].state = "closing"
  /\ \E r \in Reqs : result[r] = "QueueShutdown"
  /\ running # {}

\* The sweep (from the interval timer, or the one createSession runs at
\* capacity) is closing the page of session id: its closeSession(id) awaits
\* page.close().
SweepCloses(id) ==
  \E r \in Clients : pc[r] \in {"sweep", "cleanup"} /\ target[r] = id

\* C26: while the idle sweep closes the page of a session, no exchange is
\* running against that page.
C26_SweepSparesRunning ==
  \A id \in Ids : SweepCloses(id) => \A x \in running : sid[x] # id

\* C27: however the SelectModel step ends (button absent, a click that fails,
\* the option not appearing, a failure while the dropdown is dismissed), the
\* exchange has not failed and goes on to SubmitMessage.
C27_SelectModelNeverFatal ==
  [][(xpc = "selectModel" /\ xpc' # "selectModel")
       => (xpc' = "send" /\ xresult' = NoResult)]_vars

\* C28: however the NewConversation step ends (control absent, a click that
\* fails, the fallback navigation failing), the exchange has not failed and
\* goes on to SelectModel, and from there to SubmitMessage unless SelectModel
\* itself throws; with the control absent the step navigates to the target
\* surface, with the control present it clicks it and does not navigate.
C28_NewConversationNeverFatal ==
  /\ [][(xpc = "newChat" /\ xpc' # "newChat") =>
          /\ xpc' = "selectModel" /\ xresult' = NoResult
          /\ xops'[1].op = "$newChatButton"
          /\ xops'[1].out = "absent" => Len(xops') = 2 /\ xops'[2].op = "goto"
          /\ xops'[1].out = "present" => Len(xops') = 2 /\ xops'[2].op = "click"
          /\ xops'[1].out = "throws" => Len(xops') = 1
          /\ (2 \in xswallowed') = (xops'[Len(xops')].out = "throws")]_vars
  /\ [][(2 \in xswallowed /\ xpc = "selectModel" /\ xpc' # "selectModel") =>
          \/ xpc' = "send" /\ xresult' = NoResult
          \/ xpc' = "failed" /\ xops'[Len(xops')] = Op("Escape", "throws")]_vars

\* The control was absent, the fallback navigation failed, and the exchange
\* stands at SelectModel.
C28_Witness ==
  /\ xpc = "selectModel" /\ xresult = NoResult /\ 2 \in xswallowed
  /\ xops = <<Op("$newChatButton", "absent"), Op("goto", "throws")>>

\* The error of waitForResponseOnPage on the deadline.
ResponseTimeout == Error("Response timeout - Copilot took too long to respond")

\* C29: the wait ends in completion only in a poll that saw the stop button
\* and the loading indicator both absent, and saw it before the response
\* deadline elapsed; a text is returned only after such a poll; when the
\* deadline has elapsed and no poll saw that, the exchange throws the
\* response-timeout error and returns no text.
C29_CompletionByPoll ==
  /\ [][(xpc = "poll" /\ xpc' = "extract") =>
          /\ xobs' = [polled |-> TRUE, stop |-> FALSE, loading |-> FALSE]
          /\ xsawAt' = xclock'
          /\ xsawAt' < responseTimeout]_vars
  /\ [](xresult.kind = "text" => xsawAt # -1)
  /\ [][(xpc = "poll" /\ xclock >= responseTimeout /\ xpc' # "poll") =>
          xpc' = "failed" /\ xresult' = ResponseTimeout]_vars

\* C29, amended: the wait ends in completion only in a poll that saw both
\* indicators absent and whose loop test passed before the deadline (the
\* poll itself may end up to one delay after it); a text is returned only
\* after such a poll; once the loop test finds the deadline elapsed the
\* exchange throws the response-timeout error, which is thrown in no other
\* case, and returns no text.
C29_CompletionByPollBegun ==
  /\ [][(xpc = "poll" /\ xpc' = "extract") =>
          /\ xobs' = [polled |-> TRUE, stop |-> FALSE, loading |-> FALSE]
          /\ xsawAt' = xclock'
          /\ xstarted' < responseTimeout
          /\ xsawAt' < responseTimeout + MaxPollDelay]_vars
  /\ [](xresult.kind = "text" => xsawAt # -1)
  /\ [][(xpc = "poll" /\ xclock >= responseTimeout /\ xpc' # "poll") =>
          xpc' = "failed" /\ xresult' = ResponseTimeout]_vars
  /\ [][(xresult' = ResponseTimeout /\ xresult # ResponseTimeout) =>
          xclock >= responseTimeout /\ xsawAt = -1]_vars

\* A poll whose loop test passed before the deadline saw both indicators
\* absent after it, and the wait ended in completion.
C29_Witness ==
  /\ xpc = "extract" /\ xobs = [polled |-> TRUE, stop |-> FALSE, loading |-> FALSE]
  /\ xstarted < responseTimeout /\ xsawAt >= responseTimeout

\* The error of extractLastResponseFromPage.
ExtractionFailed == Error("Could not extract response from page")

\* The strategy consulted as entry e of xseen yielded a non-empty match: its
\* query matched and the text of the last matching element is not blank.
Yielded(e) == ~e.threw /\ e.last # "<none>" /\ trim(e.last) # ""

\* C30: the strategies are consulted in their order, a later one only when
\* every earlier one yielded nothing; a strategy that yields a non-empty
\* match ends the extraction, which returns the (trimmed) text of its last
\* matching element, and nothing else is ever returned; the extraction
\* throws the extraction-failed error exactly when all four strategies were
\* consulted and none yielded.
C30_ExtractionOrder ==
  /\ [](\A i \in 1..Len(xseen) : xseen[i].strategy = i)
  /\ [](\A i \in 1..(Len(xseen) - 1) : ~Yielded(xseen[i]))
  /\ [](xresult.kind = "text" =>
          /\ xseen # <<>> /\ Yielded(xseen[Len(xseen)])
          /\ xels # <<>> /\ xseen[Len(xseen)].last = xels[Len(xels)]
          /\ xresult.value = trim(xels[Len(xels)]))
  /\ []((xseen # <<>> /\ Yielded(xseen[Len(xseen)])) => xresult.kind = "text")
  /\ [](xresult = ExtractionFailed <=>
          (Len(xseen) = 4 /\ \A i \in 1..4 : ~Yielded(xseen[i])))

\* The operations that enter or submit text.
Entering == {"click", "clear", "type", "Enter"}

\* sendMessageOnPage did not locate the message input: the wait for it timed
\* out, or the query for it answered null or threw.
InputNotLocated(ops) ==
  \/ \E i \in 1..Len(ops) : ops[i] = Op("waitForSelector", "timeout")
  \/ \E i \in 1..Len(ops) : ops[i].op = "$chatInput" /\ ops[i].out # "present"

\* C31: when the message input is not located the exchange fails there and
\* then, with the input-not-found error when the query answered null, with
\* no operation that enters or submits text executed; and an exchange that
\* failed before the wait for the response began has made no completion
\* poll and consulted no extraction strategy, and never does.
C31_NoInputNoSubmission ==
  /\ [][(xpc = "send" /\ xpc' # "send" /\ InputNotLocated(xops')) =>
          /\ xpc' = "failed" /\ xresult'.kind = "error"
          /\ \A i \in 1..Len(xops') : xops'[i].op \notin Entering
          /\ xops'[Len(xops')] = Op("$chatInput", "absent")
               => xresult' = Error("Chat input not found")
          /\ ~xobs'.polled /\ xsawAt' = -1 /\ xseen' = <<>>]_vars
  /\ [][xpc = "failed" => UNCHANGED xvars]_vars
  /\ [][(xpc # "send" /\ xresult' = Error("Chat input not found")) =>
          xresult = Error("Chat input not found")]_vars

\* The query for the message input answered null and the exchange failed
\* with the input-not-found error.
C31_Witness ==
  /\ xpc = "failed" /\ xresult = Error("Chat input not found")
  /\ xops = <<Op("waitForSelector", "appears"), Op("$chatInput", "absent")>>

\* C32: whenever an enqueue call, a timer callback, clear() or the
\* completion of an operation has finished, if no operation is running (no
\* execute() is in flight, or the `processing` flag is false) then the
\* waiting list is empty.
C32_NoIdleWithWork ==
  (running = {} \/ ~processing) => queue = <<>>

\* An operation completed while another item waited; the worker took that
\* item at once, and after it completed too the queue is idle and empty.
C32_Witness ==
  /\ Len(delivered) >= 2 /\ running = {} /\ ~processing /\ queue = <<>>
  /\ \E i \in 1..Len(accepted) :
       Pos(started, accepted[i]) > 1 /\ timerFired[accepted[i]] = 0

\* The queue is idle: nothing waits and `processing` is false.
QueueIdle == Len(queue) = 0 /\ ~processing

\* C33: when every started operation ends, every item accepted by enqueue
\* is eventually settled (with the result or the failure of its operation,
\* the queue timeout, or the shutdown rejection), and the queue always
\* comes back to the idle state, pending count zero and `processing` false.
C33_EverySettledThenIdle ==
  /\ \A r \in Reqs : (r \in Range(accepted)) ~> (result[r] \in Results \ {"pending", "QueueFull"})
  /\ []<>QueueIdle

\* An item waited behind another, ran and was settled with its result;
\* another left the list on its timeout; the queue is idle again.
C33_Witness ==
  /\ QueueIdle /\ running = {}
  /\ \E r \in Range(accepted) : Pos(started, r) > 1 /\ result[r] = "ok"
  /\ \E r \in Range(accepted) : result[r] = "QueueTimeout"

\* An exchange for session id waits in the queue or runs.
Exchanging(id) ==
  \E x \in Reqs : sid[x] = id /\ (x \in running \/ x \in Range(queue))

\* C34: while the capacity eviction of createSession or an explicit close
\* awaits page.close() on the page of a session, no exchange for that
\* session waits in the queue or runs.
C34_NoCloseUnderExchange ==
  \A r \in Reqs :
    (pc[r] \in {"evict", "close"} /\ target[r] \in Ids) => ~Exchanging(target[r])

\* Request r is answered 500 in this step.
Fails(r) == http[r] = 0 /\ http'[r] = 500

\* C35: when a chat request is answered 500, the registry holds no session
\* that was created for it (a session the handler holds and the request did
\* not name), and the step that answers it changes no message count and
\* removes no session.
C35_FailureLeavesRegistry ==
  [][\A r \in Reqs : Fails(r) =>
       /\ (sid'[r] # 0 /\ body'[r].session_id # sid'[r]) => ~hasSession(sessions', sid'[r])
       /\ \A i \in 1..Len(sessions) :
            /\ hasSession(sessions', sessions[i].id)
            /\ (\A x \in Reqs : http[x] = 0 /\ http'[x] = 200 => sid[x] # sessions[i].id)
                 => getSession(sessions', sessions[i].id).messageCount = sessions[i].messageCount]_vars

\* The calls of closeSession(id) that have invoked page.close() and await it.
Closers(id) ==
  {r \in Reqs : pc[r] \in {"cleanup", "evict", "sweep", "close"} /\ target[r] = id}

\* C36: every session in the registry owns a page on which close has not
\* been invoked, every session a handler was given for its exchange has such
\* a page while it is registered, and at no time do two calls of
\* closeSession await page.close() on the page of the same session.
C36_RegisteredPagesOpen ==
  /\ [](\A i \in 1..Len(sessions) : page[sessions[i].id] = "open")
  /\ [][\A r \in Reqs : (pc[r] = "idle" /\ pc'[r] = "queued")
                            => page'[sid'[r]] = "open"]_vars
  /\ [](\A id \in Ids : Cardinality(Closers(id)) <= 1)

\* C37: the wait reports completion only when the page has begun to
\* generate the answer to the submitted message, and a text is returned
\* only then, whether or not the stop button was seen to appear.
C37_CompletionAfterGeneration ==
  /\ [][(xpc = "poll" /\ xpc' = "extract") => xgen' \in {"running", "finished"}]_vars
  /\ [][(xresult.kind # "text" /\ xresult'.kind = "text")
          => xgen' \in {"running", "finished"}]_vars

\* C38: a text the extraction returns is not empty after trimming, whichever
\* strategy returned it.
C38_ReturnedTextNotBlank ==
  xresult.kind = "text" => trim(xresult.value) # ""

\* C39: this.initializing is set only while the doInitialize promise it
\* holds is pending, and a call of initialize never ends at once with the
\* failure of an attempt that has already ended.
C39_MarkerOnlyWhileLaunching ==
  /\ [](initializing # -1 => Pending(BM, initializing))
  /\ [][\A c \in Calls :
          (ipc[c] = "idle" /\ op'[c].name = "initialize") => ipc'[c] # "threw"]_vars

\* C40: an exchange enters the conversation reset (step 2) or the model
\* selection (step 3) only on a session on which no exchange has completed:
\* the registry, when it holds the session, counts no message for it.
C40_NoResetAfterCompletion ==
  [][\A r \in Reqs :
       (step'[r] # step[r] /\ step'[r] \in {2, 3} /\ hasSession(sessions, sid[r]))
         => getSession(sessions, sid[r]).messageCount = 0]_vars

====
